---- MODULE Spec2Model ----
(***************************************************************************)
(* Memory index of task-agent: the markdown chunker, the incremental sync  *)
(* and the hybrid search of src/src/agent/memory/_sandbox_script.py,       *)
(* driven by src/src/agent/memory/indexer.py and src/src/agent/tools.py.   *)
(***************************************************************************)
EXTENDS Integers, Sequences, FiniteSets, TLC

VARIABLES
    content,       \* chunker input: the document text, a sequence of characters
    chunk_tokens,  \* chunker input: chunk budget in tokens
    overlap,       \* chunker input: overlap budget in tokens
    chunks,        \* chunker output: the emitted chunk list
    pc,            \* "input" before the pure function under check ran, "done" after; "run" in the sync specification
    current,       \* change-set input: current path -> (mtime, size)
    indexed,       \* change-set input: recorded path -> doc_hash
    changeSet,     \* change-set output
    files,         \* the document source: path -> file record or NoFile
    tableExists,   \* whether the LanceDB table memory_chunks has been created
    table,         \* the rows of the table memory_chunks
    ftsIndex,      \* the lexical index: NoIndex, "fresh" (built over the table's rows) or "stale"
    result,        \* what the call made by the last step returned; NoResult after a file operation
    vector_rows,   \* search input: the vector hits, nearest first, each with its distance
    fts_rows,      \* search input: the lexical hits, best first, each with its raw score
    max_results,   \* search input
    min_score,     \* search input
    merged,        \* search: the ranked candidate list
    response,      \* search: what the script wrote to stdout
    request,       \* the arguments of the last run of the script's search command
    runs,          \* the sync scripts in flight: thread -> position and local variables
    sessions,      \* the agent state of each session, as session setup reads and updates it
    audit          \* history: what the syncs so far did to each path (read by properties only)

vars == <<content, chunk_tokens, overlap, chunks, pc, current, indexed, changeSet,
          files, tableExists, table, ftsIndex, result,
          vector_rows, fts_rows, max_results, min_score, merged, response,
          request, runs, sessions, audit>>

chunkVars == <<content, chunk_tokens, overlap, chunks>>
diffVars == <<current, indexed, changeSet>>
syncVars == <<files, tableExists, table, ftsIndex, result>>
searchVars == <<vector_rows, fts_rows, max_results, min_score, merged, response>>
callVars == <<request, runs, sessions>>

----------------------------------------------------------------------------
(* Bounds *)

MaxLen == 8          \* longest document text given to the chunker, in characters
MaxTokens == 2       \* largest chunk budget given to the chunker, in tokens
MaxOverlap == 1      \* largest overlap budget given to the chunker, in tokens
MaxTime == 2         \* modification times run over 1..MaxTime
MaxSize == 1         \* file sizes given to the change-set builder run over 0..MaxSize
MaxResults == 2      \* max_results given to search runs over 1..MaxResults
MaxDoc == 6          \* longest document text of the overlap-window specification
MaxWindow == 2       \* largest overlap budget of the overlap-window specification, in tokens

----------------------------------------------------------------------------
(* Program constants *)

CHUNK_TOKENS == 400
CHUNK_OVERLAP == 80
CHARS_PER_TOKEN == 4

MEMORY_DIR == "/default-user/memory"
SESSIONS_DIR == "/default-user/session-transcripts"
EMBEDDING_MODEL == "text-embedding-3-small"

\* a float is the fraction <<numerator, denominator>>, denominator > 0
VECTOR_WEIGHT == <<7, 10>>
TEXT_WEIGHT == <<3, 10>>
MIN_SCORE == <<7, 20>>
CANDIDATE_MULTIPLIER == 4
SNIPPET_CHARS == 700

----------------------------------------------------------------------------
(* Text: a str is a sequence of one-character strings *)

NL == "\n"
SP == " "
Chars == {"a", SP, NL}
Whitespace == {SP, NL}

Min(S) == CHOOSE x \in S : \A y \in S : x <= y
Max(S) == CHOOSE x \in S : \A y \in S : x >= y

\* str.split("\n"): the pieces between the newlines; never the empty list
Split(s) ==
    LET P == {i \in 1..Len(s) : s[i] = NL}
        n == Cardinality(P) + 1
        nth(k) == CHOOSE i \in P : Cardinality({j \in P : j < i}) = k - 1
        first(k) == IF k = 1 THEN 1 ELSE nth(k - 1) + 1
        last(k) == IF k = n THEN Len(s) ELSE nth(k) - 1
    IN  [k \in 1..n |-> SubSeq(s, first(k), last(k))]

\* "\n".join(buf)
RECURSIVE Join(_)
Join(buf) ==
    IF Len(buf) = 0 THEN <<>>
    ELSE IF Len(buf) = 1 THEN buf[1]
    ELSE buf[1] \o <<NL>> \o Join(Tail(buf))

\* str.strip(): leading and trailing whitespace removed
Strip(s) ==
    LET I == {i \in 1..Len(s) : s[i] \notin Whitespace}
        J == {k \in 0..(Len(s) - 1) : s[Len(s) - k] \notin Whitespace}
    IN  IF I = {} THEN <<>> ELSE SubSeq(s, Min(I), Len(s) - Min(J))

----------------------------------------------------------------------------
(* chunk_markdown *)

\* mutant: the loop stops only when the count exceeds the overlap budget
RECURSIVE OverlapLoopStrict(_, _, _, _, _)
OverlapLoopStrict(buf, i, overlap_buf, overlap_count, overlap_chars) ==
    IF i = 0 THEN [buf |-> overlap_buf, count |-> overlap_count]
    ELSE LET c == overlap_count + Len(buf[i]) + 1
             ob == <<buf[i]>> \o overlap_buf
         IN  IF c > overlap_chars
             THEN [buf |-> ob, count |-> c]
             ELSE OverlapLoopStrict(buf, i - 1, ob, c, overlap_chars)

\* the `for ol in reversed(buf)` loop: i is the index of the next line to take
RECURSIVE OverlapLoop(_, _, _, _, _)
OverlapLoop(buf, i, overlap_buf, overlap_count, overlap_chars) ==
    IF i = 0 THEN [buf |-> overlap_buf, count |-> overlap_count]
    ELSE LET c == overlap_count + Len(buf[i]) + 1
             ob == <<buf[i]>> \o overlap_buf
         IN  IF c >= overlap_chars
             THEN [buf |-> ob, count |-> c]
             ELSE OverlapLoop(buf, i - 1, ob, c, overlap_chars)

\* mutant: the next chunk starts after the boundary line, overlap forgotten
NextChunkStartNoOverlap(line_num, overlap_buf) == line_num + 1

\* mutant: the next chunk's start is one line too early
NextChunkStartOffByOne(line_num, overlap_buf) == line_num - Len(overlap_buf)

\* the chunk_start assigned after a chunk boundary
NextChunkStart(line_num, overlap_buf) == line_num - Len(overlap_buf) + 1

\* mutant: the `if text:` guard is missing
EmitChunkUnguarded(cs, text, path, start_line, end_line) ==
    Append(cs, [text |-> text, path |-> path,
                start_line |-> start_line, end_line |-> end_line])

\* mutant: end_line taken from a 0-based line counter
EmitChunkEndZeroBased(cs, text, path, start_line, end_line) ==
    IF text # <<>>
    THEN Append(cs, [text |-> text, path |-> path,
                     start_line |-> start_line, end_line |-> end_line - 1])
    ELSE cs

\* the `if text:` guards: an empty text appends nothing
EmitChunk(cs, text, path, start_line, end_line) ==
    IF text # <<>>
    THEN Append(cs, [text |-> text, path |-> path,
                     start_line |-> start_line, end_line |-> end_line])
    ELSE cs

\* whether the buffer has reached the budget
BudgetReached(buf_chars, chunk_chars) == buf_chars >= chunk_chars

\* one iteration of `for line_num, line in enumerate(lines, start=1)`
LoopBody(st, line_num, line, path, chunk_chars, overlap_chars) ==
    LET buf == Append(st.buf, line)
        buf_chars == st.buf_chars + Len(line) + 1
    IN  IF BudgetReached(buf_chars, chunk_chars)
        THEN LET text == Strip(Join(buf))
                 ov == OverlapLoop(buf, Len(buf), <<>>, 0, overlap_chars)
             IN  [chunks |-> EmitChunk(st.chunks, text, path, st.chunk_start, line_num),
                  buf |-> ov.buf,
                  buf_chars |-> ov.count,
                  chunk_start |-> NextChunkStart(line_num, ov.buf)]
        ELSE [chunks |-> st.chunks, buf |-> buf, buf_chars |-> buf_chars,
              chunk_start |-> st.chunk_start]

RECURSIVE ChunkLoop(_, _, _, _, _, _)
ChunkLoop(st, line_num, lines, path, chunk_chars, overlap_chars) ==
    IF line_num > Len(lines) THEN st
    ELSE ChunkLoop(LoopBody(st, line_num, lines[line_num], path, chunk_chars, overlap_chars),
                   line_num + 1, lines, path, chunk_chars, overlap_chars)

chunk_markdown(text, path, tokens, ovl) ==
    LET lines == Split(text)
        chunk_chars == tokens * CHARS_PER_TOKEN
        overlap_chars == ovl * CHARS_PER_TOKEN
        st0 == [chunks |-> <<>>, buf |-> <<>>, buf_chars |-> 0, chunk_start |-> 1]
        st == ChunkLoop(st0, 1, lines, path, chunk_chars, overlap_chars)
    IN  IF Len(lines) = 0 THEN <<>>
        ELSE EmitChunk(st.chunks, Strip(Join(st.buf)), path, st.chunk_start, Len(lines))

----------------------------------------------------------------------------
(* Documents *)

\* every path of the model names a visible *.md file of one of the two
\* directories, so each passes the listing's name filters
MemA == [dir |-> MEMORY_DIR, name |-> "a.md"]
MemB == [dir |-> MEMORY_DIR, name |-> "b.md"]
SessS == [dir |-> SESSIONS_DIR, name |-> "s.md"]

Paths == {MemA, SessS}                 \* the files of the sync specification
DiffPaths == {MemA, MemB, SessS}       \* the paths given to the change-set builder
DocContents == {<<>>, <<"a">>, <<"b">>}

NoFile == [exists |-> FALSE]
NoResult == [status |-> "none"]

classify_source(path) == IF path.dir = SESSIONS_DIR THEN "sessions" ELSE "memory"

\* the directory listing of cmd_sync: the files present, with their stat
current_files(fs) ==
    [p \in {q \in DOMAIN fs : fs[q] # NoFile} |->
        [mtime |-> fs[p].mtime, size |-> Len(fs[p].content)]]

\* md5 of "{mtime}:{size}": the digest stands for the pair it is computed from
MetaHash(meta) == <<"md5", meta.mtime, meta.size>>

\* path -> doc_hash read back from the rows of the table
indexed_meta(tbl) ==
    [p \in {r.path : r \in tbl} |->
        CHOOSE h \in {r.doc_hash : r \in {x \in tbl : x.path = p}} : TRUE]

----------------------------------------------------------------------------
(* The diff of cmd_sync *)

\* mutant: only new paths are picked up, a changed fingerprint is ignored
NeedsIndexNewOnly(path, meta_hash, indexed_) ==
    path \notin DOMAIN indexed_

\* mutant: every listed document is picked up, whatever is recorded for it
NeedsIndexAlways(path, meta_hash, indexed_) == TRUE

\* mutant: a path that is not recorded is picked up by the first sync only
NeedsIndexFirstSyncOnly(path, meta_hash, indexed_) ==
    \/ DOMAIN indexed_ = {}
    \/ path \in DOMAIN indexed_ /\ indexed_[path] # meta_hash

\* `if path not in indexed_meta or indexed_meta[path] != meta_hash`
NeedsIndex(path, meta_hash, indexed_) ==
    path \notin DOMAIN indexed_ \/ indexed_[path] # meta_hash

\* files_to_index as (path, meta_hash) pairs, files_to_delete, and the
\* reported unchanged count
ChangeSet(current_, indexed_) ==
    LET files_to_index ==
            {<<p, MetaHash(current_[p])>> :
                p \in {q \in DOMAIN current_ : NeedsIndex(q, MetaHash(current_[q]), indexed_)}}
    IN  [files_to_index |-> files_to_index,
         files_to_delete |-> DOMAIN indexed_ \ DOMAIN current_,
         unchanged |-> Cardinality(DOMAIN current_) - Cardinality(files_to_index)]

----------------------------------------------------------------------------
(* cmd_sync *)

\* mutant: the delete raises, the handler passes, the rows stay
DeleteByPathFailing(tbl, paths) == tbl

\* table.delete('path = "<path>"')
DeleteByPath(tbl, paths) == {r \in tbl : r.path \notin paths}

\* mutant: the ordinal of a chunk counts from 1
RowsOneBased(path, meta_hash, text) ==
    LET cs == chunk_markdown(text, path, CHUNK_TOKENS, CHUNK_OVERLAP)
    IN  {[text |-> cs[i].text, path |-> cs[i].path,
          start_line |-> cs[i].start_line, end_line |-> cs[i].end_line,
          source |-> classify_source(path), doc_hash |-> meta_hash,
          chunk_id |-> <<path, i>>] : i \in 1..Len(cs)}

\* the rows built from the chunks of one document
Rows(path, meta_hash, text) ==
    LET cs == chunk_markdown(text, path, CHUNK_TOKENS, CHUNK_OVERLAP)
    IN  {[text |-> cs[i].text, path |-> cs[i].path,
          start_line |-> cs[i].start_line, end_line |-> cs[i].end_line,
          source |-> classify_source(path), doc_hash |-> meta_hash,
          chunk_id |-> <<path, i - 1>>] : i \in 1..Len(cs)}

\* `if not current_files`: return before the diff
EmptyListing(cur) == DOMAIN cur = {}

\* the paths whose old chunks the read-chunk loop deletes: a document whose
\* read fails is skipped before its delete
ReindexDeletes(fs, files_to_index) == {e[1] : e \in {x \in files_to_index : fs[x[1]].readable}}

\* the lexical index: NoIndex before the first successful build, "fresh" when
\* the last rebuild succeeded, "stale" when a rebuild has failed since
NoIndex == "none"

\* create_fts_index(replace=True) after the rows were added
RebuildFts(fts, ftsOk) ==
    IF ftsOk THEN "fresh" ELSE IF fts = NoIndex THEN NoIndex ELSE "stale"

\* mutant: the table is connected and created before the key is looked at
ConnectedTableAlways(hasKey, exists) == TRUE

\* whether the table exists after the script: the key check returns before
\* the connect section, which creates the table when it is not there
ConnectedTable(hasKey, exists) == IF hasKey THEN TRUE ELSE exists

\* mutant: a failed rebuild of the lexical index ends the script
FtsFailureExitRaises(ftsOk) == IF ftsOk THEN 0 ELSE 1

\* the exit code after the rebuild of the lexical index: both attempts sit in
\* try/except, the inner handler is `pass`
FtsFailureExit(ftsOk) == 0

\* mutant: the early return on an empty diff is missing
NoChangeNever(cs) == FALSE

\* `if not files_to_index and not files_to_delete`
NoChange(cs) == cs.files_to_index = {} /\ cs.files_to_delete = {}

\* mutant: the rows are written one by one, and a failing embedding call
\* leaves the first of them in the table
TableAddRowByRow(tbl, rows, embedOk) ==
    IF embedOk \/ rows = {} THEN tbl \cup rows ELSE tbl \cup {CHOOSE r \in rows : TRUE}

\* table.add(all_chunks): one call embeds the texts of the whole batch and
\* then writes its rows in one commit; when the embedding raises, nothing is
\* written
TableAdd(tbl, rows, embedOk) == IF embedOk THEN tbl \cup rows ELSE tbl

\* the script: what it leaves (table, lexical index), its exit code, its
\* stdout, and what it did on the way: the documents it read, the paths it
\* called table.delete for, the rows it passed to table.add, whether it
\* called table.add (which requests the embeddings) and create_fts_index
cmd_sync(fs, tbl, exists, fts, hasKey, storeOk, embedOk, ftsOk) ==
    LET cur == current_files(fs)
        cs == ChangeSet(cur, indexed_meta(tbl))
        readable == {e \in cs.files_to_index : fs[e[1]].readable}
        deletes == cs.files_to_delete \cup ReindexDeletes(fs, cs.files_to_index)
        kept == DeleteByPath(DeleteByPath(tbl, cs.files_to_delete),
                             ReindexDeletes(fs, cs.files_to_index))
        all_chunks == UNION {Rows(e[1], e[2], fs[e[1]].content) : e \in readable}
        idle == [reads |-> {}, deletes |-> {}, added |-> {},
                 embedded |-> FALSE, rebuilt |-> FALSE]
    IN  IF ~hasKey
        THEN [table |-> tbl, exists |-> ConnectedTable(hasKey, exists), fts |-> fts,
              rc |-> 0,
              out |-> [status |-> "error", message |-> "No OpenAI API key"]] @@ idle
        ELSE IF ~storeOk
        THEN [table |-> tbl, exists |-> exists, fts |-> fts,
              rc |-> 1, out |-> NoResult] @@ idle
        ELSE IF EmptyListing(cur)
        THEN [table |-> tbl, exists |-> ConnectedTable(hasKey, exists), fts |-> fts,
              rc |-> 0,
              out |-> [status |-> "ok", indexed |-> 0, deleted |-> 0, unchanged |-> 0]] @@ idle
        ELSE IF NoChange(cs)
        THEN [table |-> tbl, exists |-> ConnectedTable(hasKey, exists), fts |-> fts,
              rc |-> 0,
              out |-> [status |-> "ok", indexed |-> 0, deleted |-> 0,
                       unchanged |-> Cardinality(DOMAIN cur)]] @@ idle
        ELSE IF all_chunks # {} /\ ~embedOk
        THEN [table |-> TableAdd(kept, all_chunks, embedOk),
              exists |-> ConnectedTable(hasKey, exists), fts |-> fts,
              reads |-> {e[1] : e \in readable}, deletes |-> deletes,
              added |-> all_chunks, embedded |-> TRUE, rebuilt |-> FALSE,
              rc |-> 1, out |-> NoResult]
        ELSE [table |-> TableAdd(kept, all_chunks, embedOk),
              exists |-> ConnectedTable(hasKey, exists),
              fts |-> RebuildFts(fts, ftsOk),
              reads |-> {e[1] : e \in readable}, deletes |-> deletes,
              added |-> all_chunks, embedded |-> all_chunks # {}, rebuilt |-> TRUE,
              rc |-> FtsFailureExit(ftsOk),
              out |-> [status |-> "ok",
                       indexed |-> Cardinality(cs.files_to_index),
                       deleted |-> Cardinality(cs.files_to_delete),
                       unchanged |-> cs.unchanged,
                       chunks |-> Cardinality(all_chunks)]]

----------------------------------------------------------------------------
(* Float arithmetic on fractions *)

RECURSIVE Gcd(_, _)
Gcd(a, b) == IF b = 0 THEN a ELSE Gcd(b, a % b)

Abs(n) == IF n < 0 THEN -n ELSE n

\* the same value in lowest terms
Norm(x) ==
    LET g == Gcd(Abs(x[1]), x[2])
    IN  <<x[1] \div g, x[2] \div g>>

RAdd(a, b) == Norm(<<a[1] * b[2] + b[1] * a[2], a[2] * b[2]>>)
RSub(a, b) == Norm(<<a[1] * b[2] - b[1] * a[2], a[2] * b[2]>>)
RMul(a, b) == Norm(<<a[1] * b[1], a[2] * b[2]>>)
RDiv(a, b) == Norm(IF b[1] > 0 THEN <<a[1] * b[2], a[2] * b[1]>> ELSE <<-(a[1] * b[2]), a[2] * (-b[1])>>)
RLess(a, b) == a[1] * b[2] < b[1] * a[2]
RZero == <<0, 1>>
ROne == <<1, 1>>

\* round(x, 4): the nearest multiple of 1/10000, a tie going to the even one
Round4(x) ==
    LET n2 == 2 * x[1] * 10000
        d2 == 2 * x[2]
        lo == n2 \div d2                    \* floor of x * 10000
        rem2 == 2 * (n2 - lo * d2)          \* twice the remainder, against d2
    IN  IF rem2 < d2 THEN Norm(<<lo, 10000>>)
        ELSE IF rem2 > d2 THEN Norm(<<lo + 1, 10000>>)
        ELSE IF lo % 2 = 0 THEN Norm(<<lo, 10000>>) ELSE Norm(<<lo + 1, 10000>>)

----------------------------------------------------------------------------
(* _bm25_rank_to_score and _merge_hybrid_results *)

\* mutant: the rank is counted from 1
bm25_rank_to_score_one_based(rank) == <<1, 2 + rank>>

\* 1 / (1 + rank)
bm25_rank_to_score(rank) == <<1, 1 + rank>>

\* the `for rank, row in enumerate(rows)` loop of cmd_search
WithRankScore(rows) ==
    [i \in 1..Len(rows) |->
        [row |-> rows[i].row, raw_score |-> rows[i].raw_score,
         rank_score |-> bm25_rank_to_score(i - 1)]]

\* by_id[cid] = entry: a dict keeps the position of a key it already holds
RECURSIVE Upsert(_, _, _)
Upsert(by_id, i, entry) ==
    IF i > Len(by_id) THEN Append(by_id, entry)
    ELSE IF by_id[i].chunk_id = entry.chunk_id THEN [by_id EXCEPT ![i] = entry]
    ELSE Upsert(by_id, i + 1, entry)

IndexOfId(by_id, cid) ==
    LET I == {i \in 1..Len(by_id) : by_id[i].chunk_id = cid}
    IN  IF I = {} THEN 0 ELSE Min(I)

\* the `for row in vector_rows` loop
RECURSIVE VectorLoop(_, _, _)
VectorLoop(by_id, rows, i) ==
    IF i > Len(rows) THEN by_id
    ELSE VectorLoop(Upsert(by_id, 1,
                           [chunk_id |-> rows[i].row.chunk_id, row |-> rows[i].row,
                            vector_score |-> RSub(ROne, rows[i].distance),
                            text_score |-> RZero]),
                    rows, i + 1)

\* mutant: a lexical hit that is also a vector hit replaces the entry
FtsEntryReplacing(by_id, scored) ==
    Upsert(by_id, 1, [chunk_id |-> scored.row.chunk_id, row |-> scored.row,
                      vector_score |-> RZero, text_score |-> scored.rank_score])

\* one iteration of the `for row in fts_rows` loop
FtsEntry(by_id, scored) ==
    LET k == IndexOfId(by_id, scored.row.chunk_id)
    IN  IF k # 0
        THEN [by_id EXCEPT ![k].text_score = scored.rank_score]
        ELSE Append(by_id, [chunk_id |-> scored.row.chunk_id, row |-> scored.row,
                            vector_score |-> RZero, text_score |-> scored.rank_score])

RECURSIVE FtsLoop(_, _, _)
FtsLoop(by_id, rows, i) ==
    IF i > Len(rows) THEN by_id
    ELSE FtsLoop(FtsEntry(by_id, rows[i]), rows, i + 1)

\* list.sort(key=score, reverse=True): stable, equal scores keep their order
RECURSIVE InsertDesc(_, _, _)
InsertDesc(sorted, i, e) ==
    IF i > Len(sorted) THEN Append(sorted, e)
    ELSE IF RLess(sorted[i].score, e.score)
         THEN SubSeq(sorted, 1, i - 1) \o <<e>> \o SubSeq(sorted, i, Len(sorted))
         ELSE InsertDesc(sorted, i + 1, e)

RECURSIVE SortDescLoop(_, _, _)
SortDescLoop(sorted, es, i) ==
    IF i > Len(es) THEN sorted
    ELSE SortDescLoop(InsertDesc(sorted, 1, es[i]), es, i + 1)

SortDesc(es) == SortDescLoop(<<>>, es, 1)

\* mutant: the weights are used as given, never divided by their sum
merge_hybrid_results_raw(v_rows, f_rows, vector_weight, text_weight) ==
    LET by_id == FtsLoop(VectorLoop(<<>>, v_rows, 1), f_rows, 1)
        scored == [i \in 1..Len(by_id) |->
                      [chunk_id |-> by_id[i].chunk_id, row |-> by_id[i].row,
                       vector_score |-> by_id[i].vector_score,
                       text_score |-> by_id[i].text_score,
                       score |-> RAdd(RMul(vector_weight, by_id[i].vector_score),
                                      RMul(text_weight, by_id[i].text_score))]]
    IN  SortDesc(scored)

merge_hybrid_results(v_rows, f_rows, vector_weight, text_weight) ==
    LET total == RAdd(vector_weight, text_weight)
        vw == IF total[1] > 0 THEN RDiv(vector_weight, total) ELSE vector_weight
        tw == IF total[1] > 0 THEN RDiv(text_weight, total) ELSE text_weight
        by_id == FtsLoop(VectorLoop(<<>>, v_rows, 1), f_rows, 1)
        scored == [i \in 1..Len(by_id) |->
                      [chunk_id |-> by_id[i].chunk_id, row |-> by_id[i].row,
                       vector_score |-> by_id[i].vector_score,
                       text_score |-> by_id[i].text_score,
                       score |-> RAdd(RMul(vw, by_id[i].vector_score),
                                      RMul(tw, by_id[i].text_score))]]
    IN  SortDesc(scored)

----------------------------------------------------------------------------
(* cmd_search from the two hit lists on *)

\* `elif vector_rows`: score = 1 - distance
VectorOnly(v_rows) ==
    SortDesc([i \in 1..Len(v_rows) |->
                 [chunk_id |-> v_rows[i].row.chunk_id, row |-> v_rows[i].row,
                  score |-> RSub(ROne, v_rows[i].distance)]])

\* `else`: score = the rank score
FtsOnly(f_rows) ==
    SortDesc([i \in 1..Len(f_rows) |->
                 [chunk_id |-> f_rows[i].row.chunk_id, row |-> f_rows[i].row,
                  score |-> f_rows[i].rank_score]])

\* the merge-and-rank branches
MergeAndRank(v_rows, f_rows) ==
    IF Len(v_rows) > 0 /\ Len(f_rows) > 0
    THEN merge_hybrid_results(v_rows, f_rows, VECTOR_WEIGHT, TEXT_WEIGHT)
    ELSE IF Len(v_rows) > 0 THEN VectorOnly(v_rows)
    ELSE FtsOnly(f_rows)

\* str(text)[:700] plus the marker when the text is longer
Snippet(text) ==
    IF Len(text) > SNIPPET_CHARS
    THEN [text |-> SubSeq(text, 1, SNIPPET_CHARS), truncated |-> TRUE]
    ELSE [text |-> text, truncated |-> FALSE]

FormatEntry(entry) ==
    [path |-> entry.row.path,
     startLine |-> entry.row.start_line,
     endLine |-> entry.row.end_line,
     score |-> Round4(entry.score),
     snippet |-> Snippet(entry.row.text),
     source |-> entry.row.source]

\* mutant: the threshold test lets everything through
BelowMinNever(score, min) == FALSE

\* `if entry["score"] < min_score`
BelowMin(score, min) == RLess(score, min)

\* `if len(output) >= max_results`
OutputFull(output, max) == Len(output) >= max

\* the filter-and-format loop
RECURSIVE FilterLoop(_, _, _, _, _)
FilterLoop(output, entries, i, max, min) ==
    IF i > Len(entries) THEN output
    ELSE IF BelowMin(entries[i].score, min) THEN FilterLoop(output, entries, i + 1, max, min)
    ELSE IF OutputFull(output, max) THEN output
    ELSE FilterLoop(Append(output, FormatEntry(entries[i])), entries, i + 1, max, min)

\* lines 388-430: the ranked list and the JSON written to stdout
RankAndFormat(v_rows, f_rows, max, min) ==
    IF Len(v_rows) = 0 /\ Len(f_rows) = 0
    THEN [merged |-> <<>>, stdout |-> [results |-> <<>>]]
    ELSE LET m == MergeAndRank(v_rows, f_rows)
         IN  [merged |-> m,
              stdout |-> [results |-> FilterLoop(<<>>, m, 1, max, min),
                          provider |-> "openai", model |-> EMBEDDING_MODEL]]

----------------------------------------------------------------------------
(* cmd_search against the table *)

DEFAULT_MAX_RESULTS == 6
DEFAULT_MIN_SCORE == <<3, 10>>

\* the words a query can be
Queries == {"a"}

Contains(text, word) == \E i \in 1..Len(text) : text[i] = word

\* the cosine distance of a row from the query: near when the row holds the
\* query's word, far otherwise
Distance(query, row) == IF Contains(row.text, query) THEN <<1, 10>> ELSE <<6, 10>>

\* every order of a set of rows
Orders(rows) ==
    {h \in [1..Cardinality(rows) -> rows] : \A i, j \in 1..Cardinality(rows) : i # j => h[i] # h[j]}

\* .limit(candidates)
Limit(hits, n) == SubSeq(hits, 1, Min({Len(hits), n}))

\* the vector query: every row, nearest first; [] when the embedding of the
\* query raises
VectorHitLists(tbl, query, embedOk, candidates) ==
    IF ~embedOk THEN {<<>>}
    ELSE {Limit([i \in 1..Len(h) |-> [row |-> h[i], distance |-> Distance(query, h[i])]], candidates) :
             h \in {o \in Orders(tbl) :
                      \A i \in 1..(Len(o) - 1) :
                          ~RLess(Distance(query, o[i + 1]), Distance(query, o[i]))}}

\* the rows a lexical index may cover: all of them when it is fresh, any
\* part of them when it is stale
IndexedRows(tbl, fts) == IF fts = "fresh" THEN {tbl} ELSE SUBSET tbl

\* the lexical query: the covered rows that hold the query's word, in the
\* order the index ranks them; [] when there is no lexical index and the
\* query raises
FtsHitLists(tbl, fts, query, candidates) ==
    IF fts = NoIndex THEN {<<>>}
    ELSE UNION {{Limit([i \in 1..Len(h) |-> [row |-> h[i], raw_score |-> 1]], candidates) :
                    h \in Orders({r \in rows : Contains(r.text, query)})} :
                rows \in IndexedRows(tbl, fts)}

\* the value of --source when the caller passes none
NoSource == ""

\* the labels a --source argument can name
Sources == {"memory", "sessions"}

\* mutant: the where clause is built but never applied
WhereIgnored(tbl, source_filter) == tbl

\* `where_clause = f'source = "{source_filter}"' if source_filter else None`
\* and `if where_clause: q = q.where(where_clause)`, on the vector query and
\* on the lexical query: the rows a query ranges over (the filter is applied
\* before the hits are ranked and limited)
Where(tbl, source_filter) ==
    IF source_filter # NoSource THEN {r \in tbl : r.source = source_filter} ELSE tbl

\* mutant: the search compacts the table it opened and loses its rows
SearchLeavesEmptied(tbl, exists, fts) == [table |-> {}, exists |-> exists, fts |-> fts]

\* what cmd_search leaves of the store: connect, list_tables, open_table,
\* search and to_pandas are its only calls on it, and none of them writes
SearchLeaves(tbl, exists, fts) == [table |-> tbl, exists |-> exists, fts |-> fts]

\* mutant: the table is opened without looking whether it is there
TableMissingNever(exists) == FALSE

\* `if TABLE_NAME not in db.list_tables().tables`
TableMissing(exists) == ~exists

\* mutant: a failed vector query ends the script
VectorFailureExitRaises(embedOk) == IF embedOk THEN 0 ELSE 1

\* the exit code after the vector query: it sits in try/except, the handler
\* prints the failure to stderr and goes on
VectorFailureExit(embedOk) == 0

\* the script from connect on: its exit code and its stdout; open_table
\* raises when the table is not there
cmd_search(exists, storeOk, embedOk, v_rows, f_rows, max, min) ==
    IF ~storeOk
    THEN [rc |-> 1, stdout |-> NoResult]
    ELSE IF TableMissing(exists)
    THEN [rc |-> 0, stdout |-> [results |-> <<>>, message |-> "No memory index found"]]
    ELSE IF ~exists
    THEN [rc |-> 1, stdout |-> NoResult]
    ELSE [rc |-> VectorFailureExit(embedOk),
          stdout |-> RankAndFormat(v_rows, WithRankScore(f_rows), max, min).stdout]

----------------------------------------------------------------------------
(* The chunker specification: inputs drawn by Init, one call *)

Strings(n) == UNION {[1..k -> Chars] : k \in 0..n}

ChunkPath == MemA

DiffIdle == /\ current = <<>>
            /\ indexed = <<>>
            /\ changeSet = <<>>

ChunkIdle == /\ content = <<>>
             /\ chunk_tokens = CHUNK_TOKENS
             /\ overlap = CHUNK_OVERLAP
             /\ chunks = <<>>

SyncIdle == /\ files = <<>>
            /\ tableExists = FALSE
            /\ table = {}
            /\ ftsIndex = NoIndex
            /\ result = NoResult

\* no search requested, no sync script in flight, no session, nothing recorded
CallIdle == /\ request = <<>>
            /\ runs = <<>>
            /\ sessions = <<>>
            /\ audit = <<>>

NoResponse == [results |-> <<>>, none |-> TRUE]

SearchIdle == /\ vector_rows = <<>>
              /\ fts_rows = <<>>
              /\ max_results = 0
              /\ min_score = MIN_SCORE
              /\ merged = <<>>
              /\ response = NoResponse

InitChunk ==
    /\ content \in Strings(MaxLen)
    /\ chunk_tokens \in 1..MaxTokens
    /\ overlap \in 0..MaxOverlap
    /\ chunks = <<>>
    /\ pc = "input"
    /\ CallIdle
    /\ DiffIdle
    /\ SyncIdle
    /\ SearchIdle

ChunkCall ==
    /\ pc = "input"
    /\ chunks' = chunk_markdown(content, ChunkPath, chunk_tokens, overlap)
    /\ pc' = "done"
    /\ UNCHANGED <<content, chunk_tokens, overlap>>
    /\ UNCHANGED <<diffVars, syncVars, searchVars, callVars, audit>>

NextChunk == ChunkCall

SpecChunk == InitChunk /\ [][NextChunk]_vars

\* The overlap-window specification: shorter documents, and overlap budgets
\* that can exceed the chunk budget
InitWindow ==
    /\ content \in Strings(MaxDoc)
    /\ chunk_tokens \in 1..MaxTokens
    /\ overlap \in 0..MaxWindow
    /\ chunks = <<>>
    /\ pc = "input"
    /\ CallIdle
    /\ DiffIdle
    /\ SyncIdle
    /\ SearchIdle

SpecWindow == InitWindow /\ [][NextChunk]_vars

----------------------------------------------------------------------------
(* The change-set specification: inputs drawn by Init, one call *)

Metas == [mtime : 1..MaxTime, size : 0..MaxSize]
PartialMaps(D, R) == UNION {[S -> R] : S \in SUBSET D}

InitDiff ==
    /\ current \in PartialMaps(DiffPaths, Metas)
    /\ indexed \in PartialMaps(DiffPaths, {MetaHash(m) : m \in Metas})
    /\ changeSet = <<>>
    /\ pc = "input"
    /\ CallIdle
    /\ ChunkIdle
    /\ SyncIdle
    /\ SearchIdle

DiffCall ==
    /\ pc = "input"
    /\ changeSet' = ChangeSet(current, indexed)
    /\ pc' = "done"
    /\ UNCHANGED <<current, indexed>>
    /\ UNCHANGED <<chunkVars, syncVars, searchVars, callVars, audit>>

NextDiff == DiffCall

SpecDiff == InitDiff /\ [][NextDiff]_vars

----------------------------------------------------------------------------
(* The search specification: hit lists drawn by Init, one call *)

\* three stored chunks the two modalities can return
RowA == [chunk_id |-> "A", path |-> MemA, start_line |-> 1, end_line |-> 2,
         text |-> <<"a">>, source |-> "memory"]
RowB == [chunk_id |-> "B", path |-> MemB, start_line |-> 1, end_line |-> 1,
         text |-> <<"b">>, source |-> "memory"]
RowC == [chunk_id |-> "C", path |-> SessS, start_line |-> 3, end_line |-> 4,
         text |-> <<"a", "b">>, source |-> "sessions"]
SearchRows == {RowA, RowB, RowC}

Distances == {<<1, 10>>, <<4, 10>>, <<6, 10>>}
RawScores == {1, 5}
MinScores == {RZero, MIN_SCORE, <<1, 2>>}

DistinctRows(hits) == \A i, j \in 1..Len(hits) : i # j => hits[i].row # hits[j].row

\* what a vector query can return: distinct rows, nearest first
VectorResults ==
    {h \in UNION {[1..k -> [row : SearchRows, distance : Distances]] : k \in 0..Cardinality(SearchRows)} :
        /\ DistinctRows(h)
        /\ \A i \in 1..(Len(h) - 1) : ~RLess(h[i + 1].distance, h[i].distance)}

\* what a lexical query can return: distinct rows, highest raw score first
FtsResults ==
    {h \in UNION {[1..k -> [row : SearchRows, raw_score : RawScores]] : k \in 0..Cardinality(SearchRows)} :
        /\ DistinctRows(h)
        /\ \A i \in 1..(Len(h) - 1) : h[i + 1].raw_score <= h[i].raw_score}

InitSearch ==
    /\ vector_rows \in VectorResults
    /\ fts_rows \in FtsResults
    /\ max_results \in 1..MaxResults
    /\ min_score \in MinScores
    /\ merged = <<>>
    /\ response = NoResponse
    /\ pc = "input"
    /\ CallIdle
    /\ ChunkIdle
    /\ DiffIdle
    /\ SyncIdle

\* _merge_hybrid_results on the two hit lists, with the default weights
MergeCall ==
    /\ pc = "input"
    /\ merged' = merge_hybrid_results(vector_rows, WithRankScore(fts_rows),
                                      VECTOR_WEIGHT, TEXT_WEIGHT)
    /\ pc' = "merged"
    /\ UNCHANGED <<vector_rows, fts_rows, max_results, min_score, response>>
    /\ UNCHANGED <<chunkVars, diffVars, syncVars, callVars, audit>>

\* cmd_search from the hit lists on
SearchCall ==
    /\ pc = "input"
    /\ LET r == RankAndFormat(vector_rows, WithRankScore(fts_rows), max_results, min_score)
       IN  /\ merged' = r.merged
           /\ response' = r.stdout
    /\ pc' = "searched"
    /\ UNCHANGED <<vector_rows, fts_rows, max_results, min_score>>
    /\ UNCHANGED <<chunkVars, diffVars, syncVars, callVars, audit>>

NextSearch == MergeCall \/ SearchCall

SpecSearch == InitSearch /\ [][NextSearch]_vars

----------------------------------------------------------------------------
(* The weights specification: hit lists and weights drawn, one merge *)

\* the weights given to the merge, and the constants they are scaled by
Weights == {RZero, TEXT_WEIGHT, VECTOR_WEIGHT, <<2, 1>>}
Scales == {<<1, 2>>, <<3, 1>>, <<10, 1>>}

InitWeights ==
    /\ vector_rows \in VectorResults
    /\ fts_rows \in FtsResults
    /\ max_results = DEFAULT_MAX_RESULTS
    /\ min_score = MIN_SCORE
    /\ merged = <<>>
    /\ response = NoResponse
    /\ pc = "input"
    /\ CallIdle
    /\ ChunkIdle
    /\ DiffIdle
    /\ SyncIdle

\* _merge_hybrid_results on the two hit lists with the given weights
MergeWeighted(vector_weight, text_weight) ==
    /\ pc = "input"
    /\ merged' = merge_hybrid_results(vector_rows, WithRankScore(fts_rows),
                                      vector_weight, text_weight)
    /\ request' = [vector_weight |-> vector_weight, text_weight |-> text_weight]
    /\ pc' = "merged"
    /\ UNCHANGED <<vector_rows, fts_rows, max_results, min_score, response>>
    /\ UNCHANGED <<chunkVars, diffVars, syncVars, runs, sessions, audit>>

NextWeights == \E vector_weight, text_weight \in Weights : MergeWeighted(vector_weight, text_weight)

SpecWeights == InitWeights /\ [][NextWeights]_vars

----------------------------------------------------------------------------
(* The sync specification: file operations and sync_memory_index calls *)

Init ==
    /\ files = [p \in Paths |-> NoFile]
    /\ tableExists = FALSE
    /\ table = {}
    /\ ftsIndex = NoIndex
    /\ result = NoResult
    /\ pc = "run"
    /\ CallIdle
    /\ ChunkIdle
    /\ DiffIdle
    /\ SearchIdle

\* a document is created or rewritten
WriteFile(p, c, t) ==
    /\ files' = [files EXCEPT ![p] = [content |-> c, mtime |-> t, readable |-> TRUE]]
    /\ result' = NoResult
    /\ UNCHANGED <<tableExists, table, ftsIndex, pc, chunkVars, diffVars, searchVars, callVars, audit>>

\* a document is removed
RemoveFile(p) ==
    /\ files[p] # NoFile
    /\ files' = [files EXCEPT ![p] = NoFile]
    /\ result' = NoResult
    /\ UNCHANGED <<tableExists, table, ftsIndex, pc, chunkVars, diffVars, searchVars, callVars, audit>>

\* a document's read permission changes
SetReadable(p, b) ==
    /\ files[p] # NoFile
    /\ files[p].readable # b
    /\ files' = [files EXCEPT ![p].readable = b]
    /\ result' = NoResult
    /\ UNCHANGED <<tableExists, table, ftsIndex, pc, chunkVars, diffVars, searchVars, callVars, audit>>

\* sync_memory_index without OPENAI_API_KEY: nothing is run
SyncNoKey ==
    /\ result' = [status |-> "skipped", message |-> "No API key"]
    /\ UNCHANGED <<files, tableExists, table, ftsIndex, pc, chunkVars, diffVars, searchVars, callVars, audit>>

\* the script's sync command run without a key
ScriptSyncNoKey ==
    LET r == cmd_sync(files, table, tableExists, ftsIndex, FALSE, TRUE, TRUE, TRUE)
    IN  /\ tableExists' = r.exists
        /\ table' = r.table
        /\ ftsIndex' = r.fts
        /\ result' = r.out
        /\ UNCHANGED <<files, pc, chunkVars, diffVars, searchVars, callVars, audit>>

\* mutant: the handler lets the exception through
GuardReraises(outcome) ==
    IF outcome.raised THEN [status |-> "raised", exc |-> outcome.exc] ELSE outcome.value

\* `except Exception as exc: return {"status": "error", "message": str(exc)}`
Guard(outcome) ==
    IF outcome.raised THEN [status |-> "error", message |-> outcome.exc] ELSE outcome.value

\* what can be down during one call: the sandbox, the store, the embedding
\* provider, the build of the lexical index; a fault hides the ones after it
SyncFaults == {"none", "sandbox", "store", "provider", "fts"}
SearchFaults == {"none", "no_sandbox", "no_key", "sandbox", "store", "provider"}

\* sync_memory_index with a key: the script runs in the sandbox
SyncCall(fault) ==
    LET sandboxOk == fault # "sandbox"
        r == cmd_sync(files, table, tableExists, ftsIndex, TRUE,
                      fault # "store", fault # "provider", fault # "fts")
        outcome == IF ~sandboxOk
                   THEN [raised |-> TRUE, exc |-> "sandbox"]
                   ELSE [raised |-> FALSE,
                         value |-> IF r.rc # 0
                                   THEN [status |-> "error", message |-> "stderr"]
                                   ELSE r.out]
    IN  /\ tableExists' = IF sandboxOk THEN r.exists ELSE tableExists
        /\ table' = IF sandboxOk THEN r.table ELSE table
        /\ ftsIndex' = IF sandboxOk THEN r.fts ELSE ftsIndex
        /\ result' = Guard(outcome)
        /\ UNCHANGED <<files, pc, chunkVars, diffVars, searchVars, callVars>>

SyncRun(fault) == SyncCall(fault) /\ UNCHANGED audit

\* `except Exception as exc: return f"Error searching memory: {exc}"`
SearchGuard(outcome) ==
    IF outcome.raised
    THEN [status |-> "search_error", message |-> <<"Error searching memory: ", outcome.exc>>]
    ELSE outcome.value

\* the memory_search tool with its default max_results and min_score; the
\* text it returns is the script's stdout or an error message
memory_search(query, hasSandbox, hasKey, sandboxOk, storeOk, embedOk, v_rows, f_rows) ==
    LET r == cmd_search(tableExists, storeOk, embedOk, v_rows, f_rows,
                        DEFAULT_MAX_RESULTS, DEFAULT_MIN_SCORE)
    IN  IF ~hasSandbox
        THEN [status |-> "search_error", message |-> <<"Error: No sandbox available.">>]
        ELSE IF ~hasKey
        THEN [status |-> "search_error",
              message |-> <<"Error: No OpenAI API key available for embedding.">>]
        ELSE SearchGuard(IF ~sandboxOk
                         THEN [raised |-> TRUE, exc |-> "sandbox"]
                         ELSE [raised |-> FALSE,
                               value |-> IF r.rc # 0
                                         THEN [status |-> "search_error",
                                               message |-> <<"Error searching memory: ", "stderr">>]
                                         ELSE [status |-> "search_output", stdout |-> r.stdout]])

\* the tool passes no --source; the script runs unless the tool returned
\* before it or the sandbox call raised
Search(query, fault) ==
    LET ran == fault \notin {"no_sandbox", "no_key", "sandbox"}
        leaves == IF ran THEN SearchLeaves(table, tableExists, ftsIndex)
                  ELSE [table |-> table, exists |-> tableExists, fts |-> ftsIndex]
    IN  /\ \E v_rows \in VectorHitLists(Where(table, NoSource), query, fault # "provider",
                                        DEFAULT_MAX_RESULTS * CANDIDATE_MULTIPLIER),
              f_rows \in FtsHitLists(Where(table, NoSource), ftsIndex, query,
                                     DEFAULT_MAX_RESULTS * CANDIDATE_MULTIPLIER) :
              result' = memory_search(query, fault # "no_sandbox", fault # "no_key",
                                      fault # "sandbox", fault # "store", fault # "provider",
                                      v_rows, f_rows)
        /\ table' = leaves.table
        /\ tableExists' = leaves.exists
        /\ ftsIndex' = leaves.fts
        /\ UNCHANGED <<files, pc, chunkVars, diffVars, searchVars, callVars, audit>>

\* what can be down while the script's search command runs on its own
ScriptFaults == {"none", "store", "provider"}

\* the script's search command run with its own arguments: --max-results,
\* --source, and the default --min-score
ScriptSearch(query, source_filter, max, fault) ==
    LET leaves == SearchLeaves(table, tableExists, ftsIndex)
    IN  /\ \E v_rows \in VectorHitLists(Where(table, source_filter), query, fault # "provider",
                                        max * CANDIDATE_MULTIPLIER),
              f_rows \in FtsHitLists(Where(table, source_filter), ftsIndex, query,
                                     max * CANDIDATE_MULTIPLIER) :
              LET r == cmd_search(tableExists, fault # "store", fault # "provider",
                                  v_rows, f_rows, max, MIN_SCORE)
              IN  result' = IF r.rc # 0
                            THEN [status |-> "script_error", rc |-> r.rc]
                            ELSE [status |-> "script_output", stdout |-> r.stdout]
        /\ table' = leaves.table
        /\ tableExists' = leaves.exists
        /\ ftsIndex' = leaves.fts
        /\ request' = [query |-> query, source |-> source_filter, max_results |-> max]
        /\ UNCHANGED <<files, pc, chunkVars, diffVars, searchVars, runs, sessions, audit>>

Next ==
    \/ \E p \in Paths, c \in DocContents, t \in 1..MaxTime : WriteFile(p, c, t)
    \/ \E p \in Paths : RemoveFile(p)
    \/ \E p \in Paths, b \in BOOLEAN : SetReadable(p, b)
    \/ SyncNoKey
    \/ ScriptSyncNoKey
    \/ \E fault \in SyncFaults : SyncRun(fault)

Spec == Init /\ [][Next]_vars

----------------------------------------------------------------------------
(* The recall specification: documents drawn by Init, then sync and search *)
(* calls against the store they leave                                      *)

FileStates ==
    {NoFile} \cup [content : DocContents, mtime : 1..MaxTime, readable : BOOLEAN]

InitRecall ==
    /\ files \in [Paths -> FileStates]
    /\ tableExists = FALSE
    /\ table = {}
    /\ ftsIndex = NoIndex
    /\ result = NoResult
    /\ pc = "run"
    /\ CallIdle
    /\ ChunkIdle
    /\ DiffIdle
    /\ SearchIdle

NextRecall ==
    \/ SyncNoKey
    \/ ScriptSyncNoKey
    \/ \E fault \in SyncFaults : SyncRun(fault)
    \/ \E query \in Queries, fault \in SearchFaults : Search(query, fault)

SpecRecall == InitRecall /\ [][NextRecall]_vars

----------------------------------------------------------------------------
(* The edit specification: documents are written, rewritten and removed   *)
(* between sync calls, and a history of what each sync did to each path is *)
(* kept beside the store                                                   *)

\* two documents of one size and one of another
EditContents == {<<"a">>, <<"b">>, <<"a", "a">>}
EditFaults == {"none", "provider"}

NotIndexed == [state |-> "none"]

\* the history of one path after a sync step from table tbl to table tbl2:
\* the document as the sync that inserted its rows listed and read it;
\* "orphaned" when an aborted sync removed its rows, "recovered" when a
\* later sync inserted rows for it again
Audited(old, p, fs, tbl, tbl2, aborted) ==
    IF \E r \in tbl2 \ tbl : r.path = p
    THEN [state |-> IF old.state = "orphaned" THEN "recovered" ELSE "indexed",
          meta |-> current_files(fs)[p],
          content |-> fs[p].content]
    ELSE IF (\E r \in tbl : r.path = p) /\ ~(\E r \in tbl2 : r.path = p)
    THEN [state |-> IF aborted THEN "orphaned" ELSE "none"]
    ELSE old

\* a sync call, with the history kept
TrackedSync(fault) ==
    /\ SyncCall(fault)
    /\ audit' = [p \in Paths |->
                    Audited(audit[p], p, files, table, table', result'.status = "error")]

InitEdit ==
    /\ files = [p \in Paths |-> NoFile]
    /\ tableExists = FALSE
    /\ table = {}
    /\ ftsIndex = NoIndex
    /\ result = NoResult
    /\ audit = [p \in Paths |-> NotIndexed]
    /\ request = <<>>
    /\ runs = <<>>
    /\ sessions = <<>>
    /\ pc = "run"
    /\ ChunkIdle
    /\ DiffIdle
    /\ SearchIdle

NextEdit ==
    \/ \E p \in Paths, c \in EditContents, t \in 1..MaxTime : WriteFile(p, c, t)
    \/ \E p \in Paths : RemoveFile(p)
    \/ \E fault \in EditFaults : TrackedSync(fault)

SpecEdit == InitEdit /\ [][NextEdit]_vars

----------------------------------------------------------------------------
(* The batch specification: as the edit specification, with a document    *)
(* over the chunk budget, so that a sync inserts several rows for one path *)

\* a document over the chunk budget: two lines of half the budget each, so
\* the second line reaches the budget and the chunker emits two chunks
LongLine == [i \in 1..((CHUNK_TOKENS * CHARS_PER_TOKEN) \div 2) |-> "a"]
LongDoc == LongLine \o <<NL>> \o LongLine

\* what each document can hold: the long document lives in the memory
\* directory
BatchContents(p) == IF p = MemA THEN {<<"a">>, LongDoc} ELSE {<<"a">>}

NextBatch ==
    \/ \E p \in Paths, t \in 1..MaxTime : \E c \in BatchContents(p) : WriteFile(p, c, t)
    \/ \E p \in Paths : RemoveFile(p)
    \/ \E fault \in EditFaults : TrackedSync(fault)

SpecBatch == InitEdit /\ [][NextBatch]_vars

----------------------------------------------------------------------------
(* The sync command step by step: each call of the script on the store is *)
(* a step of its own, so that searches and other syncs can come between    *)

Sessions == {"s1", "s2"}

\* the paths of the model in the order the listing visits them: the memory
\* directory first, then the session transcripts
Listing == <<MemA, SessS>>

IdleRun == [phase |-> "idle"]
Finished(rc, out) == [phase |-> "done", rc |-> rc, out |-> out]

\* files_to_index as the list the script walks, in listing order
ToIndexList(cs) ==
    LET Picked(p) == \E e \in cs.files_to_index : e[1] = p
        Entry(p) == CHOOSE e \in cs.files_to_index : e[1] = p
        picked == SelectSeq(Listing, Picked)
    IN  [i \in 1..Len(picked) |-> Entry(picked[i])]

\* what a change of the table's rows makes of the lexical index built before
Touched(fts) == IF fts = NoIndex THEN NoIndex ELSE "stale"

\* connect, create_table when missing, the listing, indexed_meta, the diff,
\* and the two early returns
Begin(t) ==
    /\ runs[t].phase = "started"
    /\ LET cur == current_files(files)
           recorded == indexed_meta(table)
           cs == ChangeSet(cur, recorded)
       IN  runs' = [runs EXCEPT ![t] =
                IF EmptyListing(cur)
                THEN Finished(0, [status |-> "ok", indexed |-> 0, deleted |-> 0, unchanged |-> 0])
                ELSE IF NoChange(cs)
                THEN Finished(0, [status |-> "ok", indexed |-> 0, deleted |-> 0,
                                  unchanged |-> Cardinality(DOMAIN cur)])
                ELSE [phase |-> "work",
                      indexed_meta |-> recorded,
                      files_to_delete |-> cs.files_to_delete,
                      files_to_index |-> ToIndexList(cs),
                      all_chunks |-> {},
                      indexed |-> Cardinality(cs.files_to_index),
                      deleted |-> Cardinality(cs.files_to_delete),
                      unchanged |-> cs.unchanged]]
    /\ tableExists' = ConnectedTable(TRUE, tableExists)
    /\ UNCHANGED <<files, table, ftsIndex, result, pc, request, sessions, audit,
                   chunkVars, diffVars, searchVars>>

\* one pass of `for path in files_to_delete`: table.delete in try/except
\* pass, so the rows stay when the delete raises
DeleteRemoved(t, p, ok) ==
    /\ runs[t].phase = "work"
    /\ p \in runs[t].files_to_delete
    /\ table' = IF ok THEN DeleteByPath(table, {p}) ELSE table
    /\ ftsIndex' = IF table' # table THEN Touched(ftsIndex) ELSE ftsIndex
    /\ runs' = [runs EXCEPT ![t].files_to_delete = @ \ {p}]
    /\ UNCHANGED <<files, tableExists, result, pc, request, sessions, audit,
                   chunkVars, diffVars, searchVars>>

\* one pass of `for path, meta_hash in files_to_index`: the read (a failure
\* skips the document), the delete of the old rows in try/except pass, the
\* chunks collected in all_chunks
IndexFile(t, ok) ==
    /\ runs[t].phase = "work"
    /\ runs[t].files_to_delete = {}
    /\ runs[t].files_to_index # <<>>
    /\ LET e == Head(runs[t].files_to_index)
           read == files[e[1]] # NoFile /\ files[e[1]].readable
       IN  /\ ~read => ok
           /\ table' = IF read /\ ok THEN DeleteByPath(table, {e[1]}) ELSE table
           /\ runs' = [runs EXCEPT
                  ![t].files_to_index = Tail(@),
                  ![t].all_chunks = IF read THEN @ \cup Rows(e[1], e[2], files[e[1]].content)
                                    ELSE @]
    /\ ftsIndex' = IF table' # table THEN Touched(ftsIndex) ELSE ftsIndex
    /\ UNCHANGED <<files, tableExists, result, pc, request, sessions, audit,
                   chunkVars, diffVars, searchVars>>

\* `if all_chunks: table.add(all_chunks)`; the script ends when it raises
AddChunks(t, embedOk) ==
    /\ runs[t].phase = "work"
    /\ runs[t].files_to_delete = {}
    /\ runs[t].files_to_index = <<>>
    /\ runs[t].all_chunks = {} => embedOk
    /\ table' = TableAdd(table, runs[t].all_chunks, embedOk)
    /\ ftsIndex' = IF table' # table THEN Touched(ftsIndex) ELSE ftsIndex
    /\ runs' = [runs EXCEPT ![t] =
                  IF embedOk THEN [runs[t] EXCEPT !.phase = "rebuild"]
                  ELSE Finished(1, NoResult)]
    /\ UNCHANGED <<files, tableExists, result, pc, request, sessions, audit,
                   chunkVars, diffVars, searchVars>>

\* create_fts_index and the result the script prints
RebuildIndex(t, ftsOk) ==
    /\ runs[t].phase = "rebuild"
    /\ ftsIndex' = RebuildFts(ftsIndex, ftsOk)
    /\ runs' = [runs EXCEPT ![t] =
                  Finished(FtsFailureExit(ftsOk),
                           [status |-> "ok",
                            indexed |-> runs[t].indexed,
                            deleted |-> runs[t].deleted,
                            unchanged |-> runs[t].unchanged,
                            chunks |-> Cardinality(runs[t].all_chunks)])]
    /\ UNCHANGED <<files, tableExists, table, result, pc, request, sessions, audit,
                   chunkVars, diffVars, searchVars>>

SyncStep(t, okSet) ==
    \/ Begin(t)
    \/ \E p \in Paths, ok \in okSet : DeleteRemoved(t, p, ok)
    \/ \E ok \in okSet : IndexFile(t, ok)
    \/ \E embedOk \in BOOLEAN : AddChunks(t, embedOk)
    \/ \E ftsOk \in BOOLEAN : RebuildIndex(t, ftsOk)

----------------------------------------------------------------------------
(* The race specification: Init draws the documents and the store an      *)
(* earlier sync of earlier documents left; one sync runs step by step      *)
(* while searches read the store                                           *)

RaceFiles == {NoFile} \cup [content : {<<"a">>}, mtime : 1..MaxTime, readable : {TRUE}]

TheSync == "s1"

InitRace ==
    /\ files \in [Paths -> RaceFiles]
    /\ \E earlier \in [Paths -> RaceFiles] :
          LET r == cmd_sync(earlier, {}, FALSE, NoIndex, TRUE, TRUE, TRUE, TRUE)
          IN  /\ tableExists = r.exists
              /\ table = r.table
              /\ ftsIndex = r.fts
    /\ result = NoResult
    /\ runs = [t \in {TheSync} |-> IdleRun]
    /\ request = <<>>
    /\ sessions = <<>>
    /\ audit = <<>>
    /\ pc = "run"
    /\ ChunkIdle
    /\ DiffIdle
    /\ SearchIdle

\* sync_memory_index launches the script
StartSync(t) ==
    /\ runs[t].phase = "idle"
    /\ runs' = [runs EXCEPT ![t] = [phase |-> "started"]]
    /\ UNCHANGED <<files, tableExists, table, ftsIndex, result, pc, request, sessions,
                   audit, chunkVars, diffVars, searchVars>>

NextRace ==
    \/ StartSync(TheSync)
    \/ SyncStep(TheSync, BOOLEAN)
    \/ \E query \in Queries : Search(query, "none")

SpecRace == InitRace /\ [][NextRace]_vars

----------------------------------------------------------------------------
(* The session specification: each session's setup hook starts the sync   *)
(* in a background thread; the sessions' sandboxes mount one volume, so    *)
(* their syncs work on one store                                           *)

NoSandbox == "none"

InitSessions ==
    /\ files \in [Paths -> RaceFiles]
    /\ \E earlier \in [Paths -> RaceFiles] :
          LET r == cmd_sync(earlier, {}, FALSE, NoIndex, TRUE, TRUE, TRUE, TRUE)
          IN  /\ tableExists = r.exists
              /\ table = r.table
              /\ ftsIndex = r.fts
    /\ result = NoResult
    /\ runs = [s \in Sessions |-> IdleRun]
    /\ sessions \in [Sessions -> [modal_sandbox_id : {NoSandbox, "sb"},
                                   memory_index_synced : {FALSE}]]
    /\ request = <<>>
    /\ audit = <<>>
    /\ pc = "run"
    /\ ChunkIdle
    /\ DiffIdle
    /\ SearchIdle

\* before_agent (and _setup_memory on the async path): without a sandbox
\* nothing is started; otherwise, unless the session's state says the index
\* was synced, a daemon thread is started for the sync and the state update
\* sets the flag. No lock and no look at other sessions.
BeforeAgent(s) ==
    LET start == /\ sessions[s].modal_sandbox_id # NoSandbox
                 /\ ~sessions[s].memory_index_synced
    IN  /\ start
        /\ runs' = [runs EXCEPT ![s] = [phase |-> "started"]]
        /\ sessions' = [sessions EXCEPT ![s].memory_index_synced = TRUE]
        /\ UNCHANGED <<files, tableExists, table, ftsIndex, result, pc, request,
                       audit, chunkVars, diffVars, searchVars>>

NextSessions ==
    \/ \E s \in Sessions : BeforeAgent(s)
    \/ \E s \in Sessions : SyncStep(s, {TRUE})

SpecSessions == InitSessions /\ [][NextSessions]_vars

----------------------------------------------------------------------------
(* The hooks specification: the setup hooks of two sessions called again   *)
(* and again, with the archive of the previous session and the background  *)
(* sync they start. No document is removed here, so the sync never has a   *)
(* removed document's rows to delete                                       *)

MaxCalls == 2        \* hook calls made in one session

NoType == ""
TextMessages == "text"
MessageKinds == {"none", "tools", TextMessages}
WriteOutcomes == {"written", "exit_nonzero", "raised"}

\* the archive file in the memory directory
ArchiveFile == [content |-> <<"a">>, mtime |-> 1, readable |-> TRUE]

\* mutant: the flag of the session is not looked at
StartsSyncIgnoringFlag(st) == st.modal_sandbox_id # NoSandbox

\* `if sandbox_id and not state.get("_memory_index_synced")`
StartsSync(st) == st.modal_sandbox_id # NoSandbox /\ ~st.memory_index_synced

\* session_type after `if not state.get("session_type")`
TypeOf(st) == IF st.session_type = NoType THEN "main" ELSE st.session_type

\* _afind_previous_session: the other sessions that hold messages and are
\* not marked archived
PreviousSessions(ss, current_session_id) ==
    {o \in DOMAIN ss : o # current_session_id /\ ~ss[o].session_archived /\ ss[o].messages # "none"}

\* _extract_conversation_text: None when no user or assistant text is left
ExtractsText(kind) == kind = TextMessages

\* _write_archive_to_volume and the try around it: an exception ends the
\* archive; a non-zero exit of the write is logged and the function returns
ArchiveGoesOn(write) == write \in {"written", "exit_nonzero"}

\* _archive_previous_session: the sessions, the files and the record of what
\* was done, after the call
archive_previous_session(ss, fs, log, current_session_id, findOk, write, markOk) ==
    LET prevs == PreviousSessions(ss, current_session_id)
        prev == CHOOSE o \in prevs : TRUE
        marked == [ss EXCEPT ![prev].session_archived = IF markOk THEN TRUE ELSE @]
        same == [sessions |-> ss, files |-> fs, audit |-> log]
    IN  IF ~findOk \/ prevs = {} THEN same
        ELSE IF ~ExtractsText(ss[prev].messages)
        THEN [sessions |-> marked, files |-> fs,
              audit |-> log \cup {[session |-> prev, write |-> "no_text"]}]
        ELSE [sessions |-> IF ArchiveGoesOn(write) THEN marked ELSE ss,
              files |-> IF write = "written" THEN [fs EXCEPT ![MemA] = ArchiveFile] ELSE fs,
              audit |-> log \cup {[session |-> prev, write |-> write]}]

\* the part of both hooks that starts the sync: the thread is started and
\* the flag goes into the state update
StartMemoryIndexSync(ss, rs, s) ==
    IF StartsSync(ss[s])
    THEN [sessions |-> [ss EXCEPT ![s].memory_index_synced = TRUE,
                                  ![s].started = @ + 1],
          runs |-> [rs EXCEPT ![s] = [phase |-> "started"]]]
    ELSE [sessions |-> ss, runs |-> rs]

InitHooks ==
    /\ files = [p \in Paths |-> NoFile]
    /\ tableExists = FALSE
    /\ table = {}
    /\ ftsIndex = NoIndex
    /\ result = NoResult
    /\ runs = [s \in Sessions |-> IdleRun]
    /\ sessions \in [Sessions -> [modal_sandbox_id : {NoSandbox, "sb"},
                                   memory_index_synced : {FALSE},
                                   session_type : {NoType},
                                   messages : MessageKinds,
                                   session_archived : {FALSE},
                                   started : {0},
                                   calls : {0}]]
    /\ request = <<>>
    /\ audit = {}
    /\ pc = "run"
    /\ ChunkIdle
    /\ DiffIdle
    /\ SearchIdle

\* before_agent: the session type, then nothing more without a sandbox;
\* otherwise the sync is started unless the flag is set (no archive here)
before_agent(s) ==
    /\ sessions[s].calls < MaxCalls
    /\ LET typed == [sessions EXCEPT ![s].session_type = TypeOf(sessions[s]),
                                      ![s].calls = @ + 1]
           r == StartMemoryIndexSync(typed, runs, s)
       IN  /\ sessions' = r.sessions
           /\ runs' = r.runs
    /\ UNCHANGED <<files, tableExists, table, ftsIndex, result, pc, request,
                   audit, chunkVars, diffVars, searchVars>>

\* abefore_agent: the session type, then nothing more without a sandbox;
\* otherwise _setup_memory: the archive of the previous session for a main
\* session, then the sync unless the flag is set
abefore_agent(s, findOk, write, markOk) ==
    /\ sessions[s].calls < MaxCalls
    /\ LET typed == [sessions EXCEPT ![s].session_type = TypeOf(sessions[s]),
                                      ![s].calls = @ + 1]
           same == [sessions |-> typed, files |-> files, audit |-> audit]
           a == IF typed[s].session_type = "main" /\ typed[s].modal_sandbox_id # NoSandbox
                THEN archive_previous_session(typed, files, audit, s, findOk, write, markOk)
                ELSE same
           r == StartMemoryIndexSync(a.sessions, runs, s)
       IN  /\ sessions' = r.sessions
           /\ runs' = r.runs
           /\ files' = a.files
           /\ audit' = a.audit
    /\ UNCHANGED <<tableExists, table, ftsIndex, result, pc, request,
                   chunkVars, diffVars, searchVars>>

\* _bg_sync catches the exception of a sync that cannot run and logs it
BgSyncFails(s) ==
    /\ runs[s].phase = "started"
    /\ runs' = [runs EXCEPT ![s] = Finished(1, NoResult)]
    /\ UNCHANGED <<files, tableExists, table, ftsIndex, result, pc, request, sessions,
                   audit, chunkVars, diffVars, searchVars>>

NextHooks ==
    \/ \E s \in Sessions : before_agent(s)
    \/ \E s \in Sessions, findOk, markOk \in BOOLEAN, write \in WriteOutcomes :
          abefore_agent(s, findOk, write, markOk)
    \/ \E s \in Sessions : Begin(s)
    \/ \E s \in Sessions : IndexFile(s, TRUE)
    \/ \E s \in Sessions, embedOk \in BOOLEAN : AddChunks(s, embedOk)
    \/ \E s \in Sessions, ftsOk \in BOOLEAN : RebuildIndex(s, ftsOk)
    \/ \E s \in Sessions : BgSyncFails(s)

SpecHooks == InitHooks /\ [][NextHooks]_vars

----------------------------------------------------------------------------
(* The flush specification: one session's messages grow and are compacted, *)
(* and before_model runs before every model call                           *)

MaxTurns == 4        \* before_model calls made in the session

SUMMARIZATION_THRESHOLD == 170000
SOFT_MARGIN == 8000
FlushThreshold == SUMMARIZATION_THRESHOLD - SOFT_MARGIN
ResetThreshold == SUMMARIZATION_THRESHOLD \div 2

\* what count_tokens_approximately can return: the values on both sides of
\* each threshold
TokenCounts == {0, ResetThreshold - 1, ResetThreshold, FlushThreshold - 1,
                FlushThreshold, SUMMARIZATION_THRESHOLD}

\* no call made yet
NoCall == [made |-> FALSE, tokens |-> 0, done |-> FALSE, compacted |-> FALSE]

\* mutant: a call that finds done set fires again at the flush threshold
before_model_refiring(done, turn, total_tokens) ==
    IF done
    THEN IF total_tokens < ResetThreshold
         THEN [done |-> FALSE, turn |-> FALSE]
         ELSE [done |-> done, turn |-> total_tokens >= FlushThreshold]
    ELSE IF total_tokens >= FlushThreshold
         THEN [done |-> TRUE, turn |-> TRUE]
         ELSE [done |-> done, turn |-> turn]

\* before_model of MemoryFlushMiddleware and of MemoryMiddleware: the two
\* flags after the returned update is applied (None leaves both). A flag
\* the state does not hold yet is read by state.get as false
before_model(done, turn, total_tokens) ==
    IF done
    THEN IF total_tokens < ResetThreshold
         THEN [done |-> FALSE, turn |-> FALSE]
         ELSE [done |-> done, turn |-> FALSE]
    ELSE IF total_tokens >= FlushThreshold
         THEN [done |-> TRUE, turn |-> TRUE]
         ELSE [done |-> done, turn |-> turn]

InitFlush ==
    /\ sessions = [s \in {TheSync} |->
                      [tokens |-> 0,
                       memory_flush_done |-> FALSE,
                       memory_flush_turn |-> FALSE,
                       observed |-> FALSE,
                       compacted |-> FALSE,
                       calls |-> 0,
                       fires |-> 0,
                       last |-> NoCall]]
    /\ runs = <<>>
    /\ request = <<>>
    /\ audit = <<>>
    /\ pc = "run"
    /\ ChunkIdle
    /\ DiffIdle
    /\ SyncIdle
    /\ SearchIdle

\* messages are appended between two model calls
Grow(s, n) ==
    /\ sessions[s].observed \/ sessions[s].calls = 0
    /\ n >= sessions[s].tokens
    /\ sessions' = [sessions EXCEPT ![s].tokens = n, ![s].observed = FALSE,
                                     ![s].compacted = FALSE]
    /\ UNCHANGED <<chunkVars, diffVars, syncVars, searchVars, pc, request, runs, audit>>

\* the summarization at the hard threshold replaces older messages
Compact(s, n) ==
    /\ sessions[s].observed
    /\ sessions[s].tokens >= SUMMARIZATION_THRESHOLD
    /\ n < sessions[s].tokens
    /\ sessions' = [sessions EXCEPT ![s].tokens = n, ![s].observed = FALSE,
                                     ![s].compacted = TRUE]
    /\ UNCHANGED <<chunkVars, diffVars, syncVars, searchVars, pc, request, runs, audit>>

\* one call of the before_model hook on the session's state
BeforeModel(s) ==
    /\ ~sessions[s].observed
    /\ sessions[s].calls < MaxTurns
    /\ LET st == sessions[s]
           u == before_model(st.memory_flush_done, st.memory_flush_turn, st.tokens)
           reset == st.memory_flush_done /\ ~u.done
           sets_turn == u.turn /\ (st.memory_flush_done \/ st.tokens >= FlushThreshold)
       IN  sessions' = [sessions EXCEPT ![s] =
              [st EXCEPT !.memory_flush_done = u.done,
                         !.memory_flush_turn = u.turn,
                         !.observed = TRUE,
                         !.calls = @ + 1,
                         !.fires = IF reset THEN 0
                                   ELSE IF sets_turn THEN @ + 1 ELSE @,
                         !.last = [made |-> TRUE, tokens |-> st.tokens,
                                   done |-> st.memory_flush_done,
                                   compacted |-> st.compacted]]]
    /\ UNCHANGED <<chunkVars, diffVars, syncVars, searchVars, pc, request, runs, audit>>

NextFlush ==
    \/ \E n \in TokenCounts : Grow(TheSync, n)
    \/ \E n \in TokenCounts : Compact(TheSync, n)
    \/ BeforeModel(TheSync)

SpecFlush == InitFlush /\ [][NextFlush]_vars

----------------------------------------------------------------------------
(* The tool specification: the memory_search tool of agent/memory/tools.py *)
(* on what the script's search command prints                              *)

\* the keys the tool reads from each result, in the order it reads them
ListingKeys == <<"snippet", "path", "start_line", "end_line", "score">>

MissingKeys(r) == {i \in 1..Len(ListingKeys) : ListingKeys[i] \notin DOMAIN r}

\* json.loads(stdout) and the listing built from it; a key a result does
\* not hold raises KeyError, which the tool's except turns into its error text
format_results(data) ==
    LET results == IF "results" \in DOMAIN data THEN data.results ELSE <<>>
        bad == {i \in 1..Len(results) : MissingKeys(results[i]) # {}}
    IN  IF Len(results) = 0
        THEN [status |-> "text", text |-> "No matching memories found."]
        ELSE IF bad # {}
        THEN [status |-> "error",
              message |-> <<"Error searching memory: ",
                            ListingKeys[Min(MissingKeys(results[Min(bad)]))]>>]
        ELSE [status |-> "found",
              count |-> Len(results),
              lines |-> [i \in 1..Len(results) |->
                            [path |-> results[i].path,
                             start_line |-> results[i].start_line,
                             end_line |-> results[i].end_line,
                             score |-> results[i].score]]]

InitTool ==
    /\ vector_rows \in VectorResults
    /\ fts_rows \in FtsResults
    /\ max_results \in 1..MaxResults
    /\ min_score = MIN_SCORE
    /\ merged = <<>>
    /\ response = NoResponse
    /\ pc = "input"
    /\ CallIdle
    /\ ChunkIdle
    /\ DiffIdle
    /\ SyncIdle

\* the tool runs the search command with --max-results and no --min-score,
\* and formats what it printed
ToolSearch ==
    /\ pc = "input"
    /\ LET r == RankAndFormat(vector_rows, WithRankScore(fts_rows), max_results, min_score)
       IN  /\ merged' = r.merged
           /\ response' = r.stdout
           /\ result' = format_results(r.stdout)
    /\ pc' = "searched"
    /\ UNCHANGED <<vector_rows, fts_rows, max_results, min_score>>
    /\ UNCHANGED <<files, tableExists, table, ftsIndex, chunkVars, diffVars, callVars, audit>>

NextTool == ToolSearch

SpecTool == InitTool /\ [][NextTool]_vars

----------------------------------------------------------------------------
(* The reader specification: Init draws the documents and the store a sync *)
(* of them left, or no store; then searches, by the tool and by the        *)
(* script's own command with its arguments                                 *)

InitReader ==
    /\ files \in [Paths -> FileStates]
    /\ \E synced \in BOOLEAN, ftsOk \in BOOLEAN :
          LET r == cmd_sync(files, {}, FALSE, NoIndex, synced, TRUE, TRUE, ftsOk)
          IN  /\ tableExists = r.exists
              /\ table = r.table
              /\ ftsIndex = r.fts
    /\ result = NoResult
    /\ pc = "run"
    /\ CallIdle
    /\ ChunkIdle
    /\ DiffIdle
    /\ SearchIdle

NextReader ==
    \/ \E query \in Queries, fault \in SearchFaults : Search(query, fault)
    \/ \E query \in Queries, source_filter \in Sources \cup {NoSource},
          max \in 1..MaxResults, fault \in ScriptFaults :
          ScriptSearch(query, source_filter, max, fault)

SpecReader == InitReader /\ [][NextReader]_vars

----------------------------------------------------------------------------
(* Properties of chunk_markdown, stated on the result of ChunkCall *)

Lines == Split(content)
NumLines == Len(Lines)
ChunkChars == chunk_tokens * CHARS_PER_TOKEN

IsBlank(line) == \A i \in 1..Len(line) : line[i] \in Whitespace
HasText(s) == \E i \in 1..Len(s) : s[i] \notin Whitespace
Covered(n) == \E i \in 1..Len(chunks) : chunks[i].start_line <= n /\ n <= chunks[i].end_line
AllBlank(from, to) == \A n \in from..to : n \in 1..NumLines => IsBlank(Lines[n])

\* C6 as claimed: the chunk ranges of a non-empty document cover every
\* line number of the document.
C6_CoverageAllLines ==
    (pc = "done" /\ content # <<>>) => \A n \in 1..NumLines : Covered(n)

\* C6 as amended: the chunk ranges cover every line of the document that
\* holds a non-whitespace character; a line left uncovered is blank.
C6_CoverageTextLines ==
    pc = "done" => \A n \in 1..NumLines : ~IsBlank(Lines[n]) => Covered(n)

\* C6 witness: a document cut into several chunks with a text line in a
\* later chunk and a blank line that no chunk covers.
C6_Witness ==
    /\ pc = "done"
    /\ Len(chunks) >= 2
    /\ \E n \in 1..NumLines : ~Covered(n)
    /\ \E n \in 2..NumLines : ~IsBlank(Lines[n]) /\ Covered(n)

\* C7 as claimed: in a document longer than one chunk budget every two
\* consecutive chunks overlap: the second starts no later than the first ends.
C7_OverlapAlways ==
    (pc = "done" /\ Len(content) > ChunkChars) =>
        \A i \in 1..(Len(chunks) - 1) : chunks[i + 1].start_line <= chunks[i].end_line

\* C7 as amended: in a document longer than one chunk budget two consecutive
\* chunks overlap unless a whitespace-only buffer was dropped between them:
\* the second starts no later than the first ends, or every line from the
\* first's end_line up to the second's start_line is whitespace-only.
C7_OverlapUnlessBlank ==
    (pc = "done" /\ Len(content) > ChunkChars) =>
        \A i \in 1..(Len(chunks) - 1) :
            \/ chunks[i + 1].start_line <= chunks[i].end_line
            \/ AllBlank(chunks[i].end_line, chunks[i + 1].start_line)

\* C7 witness: a document longer than the budget with three chunks, the
\* second starting after the first chunk's start and inside its range.
C7_Witness ==
    /\ pc = "done"
    /\ Len(content) > ChunkChars
    /\ Len(chunks) >= 3
    /\ chunks[2].start_line > chunks[1].start_line
    /\ chunks[2].start_line <= chunks[1].end_line

\* C8: every chunk has 1 <= start_line <= end_line <= number of lines and its
\* text is the lines start_line..end_line joined by newlines and stripped.
C8_RangeValid ==
    pc = "done" =>
        \A i \in 1..Len(chunks) :
            /\ 1 <= chunks[i].start_line
            /\ chunks[i].start_line <= chunks[i].end_line
            /\ chunks[i].end_line <= NumLines
            /\ chunks[i].text = Strip(Join(SubSeq(Lines, chunks[i].start_line, chunks[i].end_line)))

\* C8 witness: a chunk that starts after line 1 and spans several lines.
C8_Witness ==
    /\ pc = "done"
    /\ \E i \in 1..Len(chunks) :
          /\ chunks[i].start_line > 1
          /\ chunks[i].end_line > chunks[i].start_line
          /\ Len(chunks[i].text) >= 3

\* C9: a document with text whose character count is below one chunk budget
\* yields exactly one chunk, from line 1 to the last line.
C9_SmallDocOneChunk ==
    (pc = "done" /\ HasText(content) /\ Len(content) < ChunkChars) =>
        /\ Len(chunks) = 1
        /\ chunks[1].start_line = 1
        /\ chunks[1].end_line = NumLines

\* C10: no emitted chunk has a text that is empty after trimming, and the
\* empty document yields no chunk.
C10_NoEmptyChunk ==
    pc = "done" =>
        /\ \A i \in 1..Len(chunks) : Strip(chunks[i].text) # <<>>
        /\ content = <<>> => chunks = <<>>

\* C10 witness: a whitespace-only buffer was reached inside a document that
\* also produced a chunk, so a line after the first chunk is in no chunk.
C10_Witness ==
    /\ pc = "done"
    /\ Len(chunks) >= 1
    /\ \E n \in 1..NumLines : n > chunks[Len(chunks)].end_line

----------------------------------------------------------------------------
(* Properties of the change-set builder, stated on the result of DiffCall *)

ReindexPaths == {e[1] : e \in changeSet.files_to_index}
SamePaths == {p \in DOMAIN current \cap DOMAIN indexed : indexed[p] = MetaHash(current[p])}

\* C5: to_reindex, to_delete and unchanged are pairwise disjoint; to_delete is
\* the recorded paths absent from the current set; unchanged counts the paths
\* present in both with equal fingerprint; to_reindex is the remaining current
\* paths, each tagged with the fingerprint of its current metadata.
C5_Partition ==
    pc = "done" =>
        /\ ReindexPaths \cap changeSet.files_to_delete = {}
        /\ ReindexPaths \cap SamePaths = {}
        /\ changeSet.files_to_delete \cap SamePaths = {}
        /\ changeSet.files_to_delete = DOMAIN indexed \ DOMAIN current
        /\ changeSet.unchanged = Cardinality(SamePaths)
        /\ ReindexPaths = DOMAIN current \ SamePaths
        /\ \A e \in changeSet.files_to_index : e[2] = MetaHash(current[e[1]])

\* C5 witness: one call with a removed path, an unchanged path and a path
\* whose recorded fingerprint differs from the current one.
C5_Witness ==
    /\ pc = "done"
    /\ changeSet.files_to_delete # {}
    /\ changeSet.unchanged >= 1
    /\ \E p \in ReindexPaths : p \in DOMAIN indexed

----------------------------------------------------------------------------
(* Properties of search, stated on the results of MergeCall and SearchCall *)

HitIds(hits) == {hits[i].row.chunk_id : i \in 1..Len(hits)}
EntryIds(entries) == {entries[i].chunk_id : i \in 1..Len(entries)}
PosOf(hits, cid) == CHOOSE i \in 1..Len(hits) : hits[i].row.chunk_id = cid

\* 1 - distance of the chunk among the vector hits, 0 when it is not there
VectorScoreOf(cid) ==
    IF cid \in HitIds(vector_rows)
    THEN LET dist == vector_rows[PosOf(vector_rows, cid)].distance
         IN  <<dist[2] - dist[1], dist[2]>>
    ELSE <<0, 1>>

\* 1 / (1 + r) of the chunk at 0-based position r of the lexical hits, else 0
TextScoreOf(cid) ==
    IF cid \in HitIds(fts_rows) THEN <<1, PosOf(fts_rows, cid)>> ELSE <<0, 1>>

\* 0.7 * vector score + 0.3 * text score, as one fraction
FusedOf(cid) ==
    LET vs == VectorScoreOf(cid)
        ts == TextScoreOf(cid)
    IN  <<7 * vs[1] * ts[2] + 3 * ts[1] * vs[2], 10 * vs[2] * ts[2]>>

SameValue(x, y) == x[1] * y[2] = y[1] * x[2]
Below(x, y) == x[1] * y[2] < y[1] * x[2]

Descending(entries) ==
    \A i \in 1..(Len(entries) - 1) : ~Below(entries[i].score, entries[i + 1].score)

\* vector hits {A: 0.1, B: 0.4} and lexical ranking [B, C]
FusionScenario ==
    /\ Len(vector_rows) = 2
    /\ vector_rows[1].row = RowA /\ vector_rows[1].distance = <<1, 10>>
    /\ vector_rows[2].row = RowB /\ vector_rows[2].distance = <<4, 10>>
    /\ Len(fts_rows) = 2
    /\ fts_rows[1].row = RowB
    /\ fts_rows[2].row = RowC

\* C11: the merged list holds each chunk of either hit list exactly once, with
\* vector_score = 1 - distance (0 when absent from the vector hits), text_score
\* = its rank score (0 when absent from the lexical hits) and score = 0.7 *
\* vector_score + 0.3 * text_score, best first; on the scenario this is
\* B = 0.72, A = 0.63, C = 0.15 in that order.
C11_Fusion ==
    pc = "merged" =>
        /\ EntryIds(merged) = HitIds(vector_rows) \cup HitIds(fts_rows)
        /\ Len(merged) = Cardinality(EntryIds(merged))
        /\ \A i \in 1..Len(merged) :
              /\ SameValue(merged[i].vector_score, VectorScoreOf(merged[i].chunk_id))
              /\ SameValue(merged[i].text_score, TextScoreOf(merged[i].chunk_id))
              /\ SameValue(merged[i].score, FusedOf(merged[i].chunk_id))
        /\ Descending(merged)
        /\ FusionScenario =>
              /\ [i \in 1..3 |-> merged[i].chunk_id] = <<"B", "A", "C">>
              /\ SameValue(merged[1].score, <<72, 100>>)
              /\ SameValue(merged[2].score, <<63, 100>>)
              /\ SameValue(merged[3].score, <<15, 100>>)

\* C11 witness: the merge has run on the scenario's hit lists.
C11_Witness ==
    /\ pc = "merged"
    /\ FusionScenario
    /\ Len(merged) = 3

AtLeastMin(entry) == ~Below(entry.score, min_score)
Qualifying == SelectSeq(merged, AtLeastMin)
FirstQualifying == SubSeq(Qualifying, 1, Min({max_results, Len(Qualifying)}))

\* C12: the results are the first max_results of the ranked candidates that
\* score at least min_score, in the candidates' descending order; so none scores
\* below min_score and there are at most max_results of them. On the scenario
\* with min_score = 0.5 and room for two, B and A are returned.
C12_ThresholdAndTruncation ==
    pc = "searched" =>
        /\ Descending(merged)
        /\ Len(response.results) = Len(FirstQualifying)
        /\ \A i \in 1..Len(response.results) :
              /\ response.results[i].path = FirstQualifying[i].row.path
              /\ response.results[i].startLine = FirstQualifying[i].row.start_line
              /\ response.results[i].endLine = FirstQualifying[i].row.end_line
              /\ ~Below(FirstQualifying[i].score, min_score)
              /\ ~Below(response.results[i].score, min_score)
        /\ Len(response.results) <= max_results
        /\ (FusionScenario /\ min_score = <<1, 2>> /\ max_results = 2) =>
              [i \in 1..Len(response.results) |-> response.results[i].path] = <<MemB, MemA>>

\* C12 witness: a search with hits of both modalities where the threshold
\* drops a candidate and the limit cuts the candidates that pass it.
C12_Witness ==
    /\ pc = "searched"
    /\ Len(vector_rows) > 0
    /\ Len(fts_rows) > 0
    /\ Len(Qualifying) < Len(merged)
    /\ Len(Qualifying) > max_results
    /\ Len(response.results) = max_results

\* C13: the lexical hit at 0-based position r gets text_score 1 / (1 + r),
\* whatever the raw scores of the hits are.
C13_RankScore ==
    pc = "merged" =>
        \A i \in 1..Len(fts_rows) :
            \E k \in 1..Len(merged) :
                /\ merged[k].chunk_id = fts_rows[i].row.chunk_id
                /\ merged[k].text_score[1] * i = merged[k].text_score[2]

\* C13 witness: three lexical hits merged, once with equal and once with
\* different raw scores; this is the one with different raw scores.
C13_Witness ==
    /\ pc = "merged"
    /\ Len(fts_rows) = 3
    /\ fts_rows[1].raw_score > fts_rows[3].raw_score
    /\ \E k \in 1..Len(merged) :
          merged[k].chunk_id = fts_rows[3].row.chunk_id /\ merged[k].text_score = <<1, 3>>

\* C14: when exactly one modality returns hits, every candidate is scored as
\* the fusion scores it with the other side empty, and the results are the
\* candidates whose fusion score is at least min_score.
C14_SingleModalityFused ==
    (pc = "searched" /\ (Len(vector_rows) = 0) # (Len(fts_rows) = 0)) =>
        /\ \A i \in 1..Len(merged) : SameValue(merged[i].score, FusedOf(merged[i].chunk_id))
        /\ \A i \in 1..Len(response.results) :
              \E k \in 1..Len(merged) :
                  /\ merged[k].row.path = response.results[i].path
                  /\ ~Below(FusedOf(merged[k].chunk_id), min_score)

----------------------------------------------------------------------------
(* Properties of sync, stated on the steps and states of Spec *)

RowsOf(tbl, p) == {r \in tbl : r.path = p}

\* C1: a sync that follows a completed sync with no file operation in between
\* reports indexed = 0 and deleted = 0 and leaves the table as it was.
C1_SecondSyncIdle ==
    [][(result.status = "ok" /\ result'.status = "ok") =>
          /\ result'.indexed = 0
          /\ result'.deleted = 0
          /\ table' = table]_vars

\* C2: after a completed sync no row of the table has the path of a document
\* that is not in the source set, whatever documents remain.
C2_RemovedDocHasNoChunks ==
    result.status = "ok" =>
        \A p \in Paths : files[p] = NoFile => RowsOf(table, p) = {}

\* C3: a sync that fails in the embedding call returns an error status and
\* leaves the table exactly as it was before the call.
C3_EmbedFailureLeavesStore ==
    [][result'.status = "error" => table' = table]_vars

\* C4: when a sync completes, no row stored before the call for a path of
\* to_delete or to_reindex is still in the table.
C4_NoStaleChunks ==
    [][result'.status = "ok" =>
          LET cs == ChangeSet(current_files(files), indexed_meta(table))
              gone == cs.files_to_delete \cup {e[1] : e \in cs.files_to_index}
          IN  \A r \in table : r.path \in gone => r \notin table']_vars

----------------------------------------------------------------------------
(* Properties of failure handling, stated on the steps of sync and search *)

Candidates == DEFAULT_MAX_RESULTS * CANDIDATE_MULTIPLIER
NoLexicalHit(query) == FtsHitLists(table, ftsIndex, query, Candidates) = {<<>>}

\* C15: a search whose script runs against a store with no table, or a table
\* with no rows, or where neither query returns a hit, returns the script's
\* output with an empty result list; it is not an error.
C15_EmptyIndexEmptyResults ==
    [][\A query \in Queries, fault \in {"none", "provider"} :
          (/\ Search(query, fault)
           /\ \/ ~tableExists
              \/ table = {}
              \/ fault = "provider" /\ NoLexicalHit(query))
          => /\ result'.status = "search_output"
             /\ result'.stdout.results = <<>>]_vars

\* C15 witness: a search of a store that was never synced has returned.
C15_Witness ==
    /\ ~tableExists
    /\ result.status = "search_output"
    /\ result.stdout = [results |-> <<>>, message |-> "No memory index found"]

\* how many of the first n lexical ranks score at least the threshold
RanksAtLeast(n, min) == Cardinality({i \in 1..n : ~Below(<<1, i>>, min)})

\* C16: a search made while the embedding provider is down returns the
\* script's output, and its results are the lexical hits in their rank order,
\* as far as the threshold and the limit let them through.
C16_ProviderDownLexicalOnly ==
    [][\A query \in Queries :
          Search(query, "provider") =>
              /\ result'.status = "search_output"
              /\ \E f_rows \in FtsHitLists(table, ftsIndex, query, Candidates) :
                    LET n == Min({DEFAULT_MAX_RESULTS,
                                  RanksAtLeast(Len(f_rows), DEFAULT_MIN_SCORE)})
                    IN  /\ Len(result'.stdout.results) = n
                        /\ \A i \in 1..n :
                              /\ result'.stdout.results[i].path = f_rows[i].row.path
                              /\ result'.stdout.results[i].startLine = f_rows[i].row.start_line
                              /\ SameValue(result'.stdout.results[i].score, <<1, i>>)]_vars

\* C16 witness: a search has returned a hit whose score is the rank score 1 of
\* the first lexical hit; any list with a vector hit scores its best entry
\* below 1, so the vector query gave nothing.
C16_Witness ==
    /\ result.status = "search_output"
    /\ Len(result.stdout.results) >= 1
    /\ result.stdout.results[1].score = <<1, 1>>

SyncChangeSet == ChangeSet(current_files(files), indexed_meta(table))
ReadableToIndex == {e \in SyncChangeSet.files_to_index : files[e[1]].readable}
InsertedRows == UNION {Rows(e[1], e[2], files[e[1]].content) : e \in ReadableToIndex}
HitRows(hits) == {hits[i].row : i \in 1..Len(hits)}

\* C17: a sync whose rebuild of the lexical index fails reports what it
\* reports when the rebuild succeeds, status ok with its counts; the rows it
\* inserted are in the table and every vector query returns them. (A sync
\* call always returns something, so steps that leave NoResult are not syncs.)
C17_LexicalBestEffort ==
    [][(result' # NoResult /\ SyncRun("fts")) =>
          /\ result'.status = "ok"
          /\ {"indexed", "deleted", "unchanged"} \subseteq DOMAIN result'
          /\ result' = cmd_sync(files, table, tableExists, ftsIndex,
                                TRUE, TRUE, TRUE, TRUE).out
          /\ InsertedRows \subseteq table'
          /\ \A query \in Queries :
                \A v_rows \in VectorHitLists(table', query, TRUE, Candidates) :
                    InsertedRows \subseteq HitRows(v_rows)]_vars

\* C17 witness: a sync has inserted rows and reported ok while the table has
\* no lexical index, which only a failed rebuild leaves.
C17_Witness ==
    /\ result.status = "ok"
    /\ "chunks" \in DOMAIN result
    /\ result.chunks >= 1
    /\ table # {}
    /\ ftsIndex = NoIndex

\* C18: a sync with nothing down skips a document whose read fails: the sync
\* completes, the rows of every readable document of to_reindex are in the
\* table, none of the unreadable one is added, the reported indexed count is
\* the number of documents read and the deleted count holds removed documents
\* only.
C18_UnreadableNotCounted ==
    [][SyncRun("none") =>
          /\ result'.status = "ok"
          /\ InsertedRows \subseteq table'
          /\ table' \ table \subseteq InsertedRows
          /\ result'.indexed = Cardinality(ReadableToIndex)
          /\ result'.deleted <= Cardinality(SyncChangeSet.files_to_delete)]_vars

\* C19: a sync without an embedding credential, through sync_memory_index or
\* through the script, returns a status that is not ok and changes nothing:
\* the table is not created, no document is read, no row is deleted or added.
C19_NoKeyNoWork ==
    [][(SyncNoKey \/ ScriptSyncNoKey) =>
          /\ result'.status \in {"skipped", "error"}
          /\ tableExists' = tableExists
          /\ table' = table
          /\ ftsIndex' = ftsIndex
          /\ cmd_sync(files, table, tableExists, ftsIndex,
                      FALSE, TRUE, TRUE, TRUE).reads = {}]_vars

\* C19 witness: the script has refused to run without a key while documents
\* wait to be indexed and no table exists.
C19_Witness ==
    /\ result = [status |-> "error", message |-> "No OpenAI API key"]
    /\ ~tableExists
    /\ \E p \in Paths : files[p] # NoFile

\* C20: what a caller of sync or search holds after the call is a returned
\* value, never a raised exception: from sync a record with a status, and a
\* message when the status is not ok; from search either an error message or
\* the script's output with its result list.
C20_StructuredResults ==
    /\ result.status # "raised"
    /\ \/ result = NoResult
       \/ result.status = "ok"
       \/ result.status \in {"skipped", "error"} /\ "message" \in DOMAIN result
       \/ result.status = "search_error" /\ "message" \in DOMAIN result
       \/ result.status = "search_output" /\ "results" \in DOMAIN result.stdout

\* C20 witness: a sync whose sandbox call raised has returned the error record.
C20_Witness ==
    result = [status |-> "error", message |-> "sandbox"]

----------------------------------------------------------------------------
(* Properties of search as a reader of the store *)

SearchStatuses == {"search_output", "search_error", "script_output", "script_error"}

\* C23: no search, whether made through the tool or through the script's own
\* command, whatever its arguments, faults and outcome, changes the rows of
\* the table, the doc_hash recorded for any path, the existence of the table
\* or the lexical index.
C23_SearchReadOnly ==
    [][result'.status \in SearchStatuses =>
          /\ table' = table
          /\ indexed_meta(table') = indexed_meta(table)
          /\ tableExists' = tableExists
          /\ ftsIndex' = ftsIndex]_vars

\* C23 witness: a search has returned hits from a table that holds rows.
C23_Witness ==
    /\ result.status \in {"search_output", "script_output"}
    /\ Len(result.stdout.results) > 0
    /\ table # {}

\* what an unfiltered search of the rows tbl can print, with the embedding
\* provider up or down
UnfilteredOutputs(tbl, query, max) ==
    {RankAndFormat(v_rows, WithRankScore(f_rows), max, MIN_SCORE).stdout :
        v_rows \in UNION {VectorHitLists(tbl, query, embedOk, max * CANDIDATE_MULTIPLIER) :
                              embedOk \in BOOLEAN},
        f_rows \in FtsHitLists(tbl, ftsIndex, query, max * CANDIDATE_MULTIPLIER)}

\* C24: a search with a source filter returns only results of that source,
\* and it prints what an unfiltered search prints over the rows of that
\* source alone, scores included, so the label restricts the rows queried and
\* enters no score; a search with no filter prints what a search over every
\* row prints.
C24_SourceFilter ==
    (result.status = "script_output" /\ tableExists) =>
        /\ request.source # NoSource =>
              /\ \A i \in 1..Len(result.stdout.results) :
                    result.stdout.results[i].source = request.source
              /\ result.stdout \in
                    UnfilteredOutputs({r \in table : r.source = request.source},
                                      request.query, request.max_results)
        /\ request.source = NoSource =>
              result.stdout \in UnfilteredOutputs(table, request.query, request.max_results)

\* C24 witness: a search for the source "sessions" has returned results
\* while the table holds a row of the source "memory" with the query's word.
C24_Witness ==
    /\ result.status = "script_output"
    /\ request.source = "sessions"
    /\ Len(result.stdout.results) > 0
    /\ \A i \in 1..Len(result.stdout.results) : result.stdout.results[i].source = "sessions"
    /\ \E r \in table : r.source = "memory" /\ \E query \in Queries : Contains(r.text, query)

----------------------------------------------------------------------------
(* Properties of sync over rewritten documents and aborted runs *)

ToIndexPaths == {e[1] : e \in SyncChangeSet.files_to_index}
HasRows(p) == audit[p].state \in {"indexed", "recovered"}

\* C25: a sync that finds no document to re-index and none to delete calls
\* neither table.delete nor table.add nor create_fts_index, reads no
\* document, leaves the table and the lexical index as they were, and
\* reports indexed = 0, deleted = 0 and unchanged = the number of listed
\* documents.
C25_EmptyChangeSetNoWork ==
    [][\A fault \in {"none", "provider", "fts"} :
          (/\ result' # NoResult
           /\ SyncChangeSet.files_to_index = {}
           /\ SyncChangeSet.files_to_delete = {}
           /\ SyncRun(fault)) =>
              LET r == cmd_sync(files, table, tableExists, ftsIndex,
                                TRUE, TRUE, fault # "provider", fault # "fts")
              IN  /\ r.deletes = {}
                  /\ r.added = {}
                  /\ ~r.embedded
                  /\ ~r.rebuilt
                  /\ r.reads = {}
                  /\ table' = table
                  /\ ftsIndex' = ftsIndex
                  /\ result' = [status |-> "ok", indexed |-> 0, deleted |-> 0,
                                unchanged |-> Cardinality(DOMAIN current_files(files))]]_vars

\* C25 witness: a sync over listed documents has returned at the empty diff.
C25_Witness ==
    /\ result.status = "ok"
    /\ "chunks" \notin DOMAIN result
    /\ result.unchanged >= 1
    /\ table # {}

\* C26: at a sync, a document that has rows and whose mtime and size are
\* those of the sync that inserted them is not in files_to_index, is not
\* read, and keeps the rows made from the text that sync read, whatever the
\* document holds now; a document whose mtime or size differs from them is
\* in files_to_index.
C26_ContentIndependent ==
    [][\A fault \in EditFaults :
          (result' # NoResult /\ SyncCall(fault)) =>
              LET r == cmd_sync(files, table, tableExists, ftsIndex,
                                TRUE, TRUE, fault # "provider", TRUE)
                  cur == current_files(files)
              IN  \A p \in DOMAIN cur :
                      HasRows(p) =>
                          /\ (cur[p] = audit[p].meta) =>
                                /\ p \notin ToIndexPaths
                                /\ p \notin r.reads
                                /\ RowsOf(table', p) = RowsOf(table, p)
                                /\ RowsOf(table', p) =
                                      Rows(p, MetaHash(audit[p].meta), audit[p].content)
                          /\ (cur[p] # audit[p].meta) => p \in ToIndexPaths]_vars

\* C26 witness: a sync has completed over a document that was rewritten with
\* the same mtime and size, and its rows hold the text from before.
C26_Witness ==
    /\ result.status = "ok"
    /\ \E p \in Paths :
          /\ files[p] # NoFile
          /\ HasRows(p)
          /\ current_files(files)[p] = audit[p].meta
          /\ files[p].content # audit[p].content
          /\ RowsOf(table, p) = Rows(p, MetaHash(audit[p].meta), audit[p].content)

\* C27: the rows a sync call adds to the table are either all the rows built
\* from all the documents it read for re-indexing, or none; a completed sync
\* adds all of them.
C27_AllOrNothingBatch ==
    [][\A fault \in EditFaults :
          (result' # NoResult /\ SyncCall(fault)) =>
              /\ (table' \ table) \in {{}, InsertedRows}
              /\ result'.status = "ok" => (table' \ table) = InsertedRows]_vars

\* C27 witness: a sync over two documents, one of them over the chunk
\* budget, was aborted after it had removed rows, and the table holds none
\* of the batch.
C27_Witness ==
    /\ result.status = "error"
    /\ table = {}
    /\ \A p \in Paths : files[p] # NoFile
    /\ files[MemA].content = LongDoc
    /\ \E p \in Paths : audit[p].state = "orphaned"

\* C28: at a sync with nothing down, every listed document whose rows an
\* aborted sync removed is in files_to_index, and when it can be read and
\* yields a chunk its rows, built from what it holds now, are in the table
\* afterwards.
C28_RecoveryAfterAbort ==
    [][(result' # NoResult /\ SyncCall("none")) =>
          \A p \in Paths :
              (audit[p].state = "orphaned" /\ files[p] # NoFile) =>
                  /\ p \in ToIndexPaths
                  /\ LET rows == Rows(p, MetaHash(current_files(files)[p]), files[p].content)
                     IN  (files[p].readable /\ rows # {}) =>
                             (rows # {} /\ RowsOf(table', p) = rows)]_vars

\* C28 witness: a document whose rows an aborted sync had removed has rows
\* again after a completed sync.
C28_Witness ==
    /\ result.status = "ok"
    /\ \E p \in Paths : audit[p].state = "recovered" /\ RowsOf(table, p) # {}

\* C29: with deletes that succeed, every row stored under a path carries
\* the doc_hash of the mtime and size the document had at the sync that
\* inserted the path's rows, so all rows of a path carry one doc_hash.
C29_OneFingerprintPerPath ==
    \A p \in Paths :
        \A r \in RowsOf(table, p) :
            /\ HasRows(p)
            /\ r.doc_hash = MetaHash(audit[p].meta)

\* C29 witness: a path has two rows and its document has been rewritten
\* with another mtime or size since they were inserted.
C29_Witness ==
    \E p \in Paths :
        /\ Cardinality(RowsOf(table, p)) >= 2
        /\ files[p] # NoFile
        /\ current_files(files)[p] # audit[p].meta

----------------------------------------------------------------------------
(* Properties of sync running beside searches and beside other syncs *)

Hashes(p) == {r.doc_hash : r \in RowsOf(table, p)}
Running == {t \in DOMAIN runs : runs[t].phase \in {"started", "work", "rebuild"}}

\* C21: while one sync runs beside searches, in every state of the table
\* the rows of a path all carry one doc_hash: the one recorded before the
\* sync or the one of the document as the sync listed it, or the path has no
\* rows.
C21_NoMixedSnapshot ==
    \A p \in Paths : Cardinality(Hashes(p)) <= 1

\* C22: at most one sync started by the sessions' setup hooks is running on
\* the store at any time.
C22_SyncsSerialized ==
    Cardinality(Running) <= 1

----------------------------------------------------------------------------
(* Properties of the chunker's overlap window and progress *)

OverlapChars == overlap * CHARS_PER_TOKEN

\* the cumulative character count of a list of lines: each line's length
\* plus one
CharCount(ls) == IF ls = <<>> THEN 0 ELSE Len(Join(ls)) + 1

Suffix(ls, k) == SubSeq(ls, Len(ls) - k + 1, Len(ls))

\* the shortest suffix of at least one line whose count reaches the overlap
\* budget, or the whole list when no suffix reaches it
ShortestSuffix(ls, oc) ==
    LET K == {k \in 1..Len(ls) : CharCount(Suffix(ls, k)) >= oc}
    IN  IF K = {} THEN ls ELSE Suffix(ls, Min(K))

\* the loop's state after the first k lines of the document
StateAfter(k) ==
    ChunkLoop([chunks |-> <<>>, buf |-> <<>>, buf_chars |-> 0, chunk_start |-> 1],
              1, SubSeq(Lines, 1, k), ChunkPath, ChunkChars, OverlapChars)

\* the buffer a cut at line k emits
EmittedBuf(k) == Append(StateAfter(k - 1).buf, Lines[k])

\* the lines at which the buffer reaches the budget and is cut
Cuts == {k \in 1..NumLines : CharCount(EmittedBuf(k)) >= ChunkChars}

\* the number of the first line kept by the cut at line k
FirstKept(k) == k - Len(StateAfter(k).buf) + 1

\* whether chunk j of the output is the final flush
IsFlush(j) == j = Len(chunks) /\ Strip(Join(StateAfter(NumLines).buf)) # <<>>

\* the cuts done before chunk j was emitted
CutsBefore(j) == {k \in Cuts : IF IsFlush(j) THEN TRUE ELSE k < chunks[j].end_line}

\* C31: at every cut the lines kept for the next buffer are the shortest
\* suffix of the emitted buffer whose character count (line length + 1 per
\* line) reaches the overlap budget, or the whole buffer when its total is
\* smaller; at least one line is kept; and every chunk emitted after a cut
\* starts at the first line kept by the latest cut before it.
C31_OverlapWindow ==
    pc = "done" =>
        /\ \A k \in Cuts :
              /\ StateAfter(k).buf = ShortestSuffix(EmittedBuf(k), OverlapChars)
              /\ Len(StateAfter(k).buf) >= 1
              /\ StateAfter(k).buf_chars = CharCount(StateAfter(k).buf)
              /\ StateAfter(k).chunk_start = FirstKept(k)
              /\ Lines[FirstKept(k)] = StateAfter(k).buf[1]
        /\ \A j \in 1..Len(chunks) :
              chunks[j].start_line =
                  IF CutsBefore(j) = {} THEN 1 ELSE FirstKept(Max(CutsBefore(j)))

\* C31 witness: a cut kept several lines but not the whole emitted buffer,
\* and the next chunk starts at the first of them.
C31_Witness ==
    /\ pc = "done"
    /\ \E k \in Cuts :
          /\ Len(StateAfter(k).buf) >= 2
          /\ Len(StateAfter(k).buf) < Len(EmittedBuf(k))
          /\ \E j \in 2..Len(chunks) : chunks[j].start_line = FirstKept(k)

\* a cut kept the whole emitted buffer because its total is below the
\* overlap budget
WholeBufferKept ==
    /\ pc = "done"
    /\ \E k \in Cuts :
          /\ CharCount(EmittedBuf(k)) < OverlapChars
          /\ Len(EmittedBuf(k)) >= 2

\* C32: every chunk after the first ends at a later line than the chunk
\* before it.
C32_ChunkProgress ==
    pc = "done" =>
        \A j \in 2..Len(chunks) : chunks[j].end_line > chunks[j - 1].end_line

----------------------------------------------------------------------------
(* Properties of the weights of the fusion *)

WeightSum == RAdd(request.vector_weight, request.text_weight)

\* the weights the scores are combined with when the given ones sum to a
\* positive number
EffectiveVector == RDiv(request.vector_weight, WeightSum)
EffectiveText == RDiv(request.text_weight, WeightSum)

\* C33: when the given weights sum to a positive number, every fused score
\* is the combination with the weights divided by their sum, and the merge
\* with both weights multiplied by one positive constant returns the same
\* list with the same scores in the same order; with the default weights the
\* effective weights are 0.7 and 0.3.
C33_WeightNormalization ==
    (pc = "merged" /\ request # <<>> /\ WeightSum[1] > 0) =>
        /\ \A i \in 1..Len(merged) :
              SameValue(merged[i].score,
                        RAdd(RMul(EffectiveVector, merged[i].vector_score),
                             RMul(EffectiveText, merged[i].text_score)))
        /\ SameValue(RAdd(EffectiveVector, EffectiveText), ROne)
        /\ \A c \in Scales :
              merge_hybrid_results(vector_rows, WithRankScore(fts_rows),
                                   RMul(c, request.vector_weight),
                                   RMul(c, request.text_weight)) = merged
        /\ (request.vector_weight = VECTOR_WEIGHT /\ request.text_weight = TEXT_WEIGHT) =>
              /\ SameValue(EffectiveVector, <<7, 10>>)
              /\ SameValue(EffectiveText, <<3, 10>>)

\* C33 witness: a merge with weights that do not sum to 1 ranked three
\* chunks with different positive scores, one of them found by both
\* modalities.
C33_Witness ==
    /\ pc = "merged"
    /\ request # <<>>
    /\ WeightSum[1] > 0
    /\ ~SameValue(WeightSum, ROne)
    /\ request.vector_weight # request.text_weight
    /\ Len(merged) = 3
    /\ RLess(merged[2].score, merged[1].score)
    /\ RLess(merged[3].score, merged[2].score)
    /\ RLess(RZero, merged[3].score)
    /\ \E i \in 1..3 : RLess(RZero, merged[i].vector_score) /\ RLess(RZero, merged[i].text_score)

----------------------------------------------------------------------------
(* Properties of the session setup hooks *)

\* C34: in every step, a session whose flag is set or that has no sandbox
\* id starts no sync and keeps its flag; a step that starts a sync starts one
\* and sets the flag. This holds whether the sync started before is running,
\* has succeeded or has failed.
C34_OneSyncPerSession ==
    [][\A s \in DOMAIN sessions :
          /\ (sessions[s].memory_index_synced \/ sessions[s].modal_sandbox_id = NoSandbox) =>
                /\ sessions'[s].started = sessions[s].started
                /\ sessions'[s].memory_index_synced = sessions[s].memory_index_synced
          /\ sessions'[s].started # sessions[s].started =>
                /\ sessions'[s].started = sessions[s].started + 1
                /\ sessions'[s].memory_index_synced]_vars

\* C34 witness: a session has called its hooks again after the call that
\* started its sync, the sync has failed, and one sync was started; the other
\* session has called a hook without a sandbox id.
C34_Witness ==
    \E s, o \in DOMAIN sessions :
        /\ DOMAIN sessions[s] = DOMAIN sessions[o]
        /\ "calls" \in DOMAIN sessions[s]
        /\ sessions[s].calls >= 2
        /\ sessions[s].started = 1
        /\ sessions[s].memory_index_synced
        /\ runs[s].phase = "done" /\ runs[s].rc = 1
        /\ sessions[o].modal_sandbox_id = NoSandbox
        /\ sessions[o].calls >= 1
        /\ sessions[o].started = 0
        /\ ~sessions[o].memory_index_synced

\* C35: every session marked archived has an archive file that was written,
\* or had no conversation text to extract.
C35_ArchiveBeforeMark ==
    \A s \in DOMAIN sessions :
        sessions[s].session_archived =>
            \E e \in audit : e.session = s /\ e.write \in {"written", "no_text"}

----------------------------------------------------------------------------
(* Properties of the pre-compaction flush *)

FlushState == sessions[TheSync]

\* C36: since the last reset of the done flag at most one call has set the
\* turn flag to true, and it was a call that found done unset and the token
\* count at or above the flush threshold; a call that finds done set leaves
\* the turn flag false.
C36_FlushOncePerCycle ==
    /\ FlushState.fires <= 1
    /\ FlushState.memory_flush_turn =>
          /\ FlushState.memory_flush_done
          /\ FlushState.fires = 1
          /\ ~FlushState.last.done
          /\ FlushState.last.tokens >= FlushThreshold
    /\ (FlushState.last.made /\ FlushState.last.done) =>
          FlushState.memory_flush_turn = FALSE

\* C36 witness: after the call that fired, a later call found done set at a
\* token count at or above the flush threshold and left the turn flag false.
C36_Witness ==
    /\ FlushState.calls >= 2
    /\ FlushState.fires = 1
    /\ FlushState.last.made
    /\ FlushState.last.done
    /\ FlushState.last.tokens >= FlushThreshold
    /\ FlushState.memory_flush_done
    /\ FlushState.memory_flush_turn = FALSE

\* C37: a call that follows a compaction and finds done set resets done.
C37_RearmAfterCompaction ==
    (FlushState.observed /\ FlushState.last.made
        /\ FlushState.last.compacted /\ FlushState.last.done) =>
        ~FlushState.memory_flush_done

----------------------------------------------------------------------------
(* Properties of the memory_search tool of agent/memory/tools.py *)

\* C38: when the search command printed N >= 1 results, the tool returns
\* the listing of N results, each with the path, line range and score the
\* command printed, and not an error text.
C38_FoundListing ==
    (pc = "searched" /\ Len(response.results) >= 1) =>
        /\ result.status = "found"
        /\ result.count = Len(response.results)
        /\ \A i \in 1..Len(response.results) :
              /\ result.lines[i].path = response.results[i].path
              /\ result.lines[i].start_line = response.results[i].startLine
              /\ result.lines[i].end_line = response.results[i].endLine
              /\ result.lines[i].score = response.results[i].score

====
